---- MODULE Spec2Model ----
(***************************************************************************)
(* Omnichannel RAG chat: the query orchestrator (post_query), the shared   *)
(* RAGService (retriever, answer cache), the conversation store and the    *)
(* document ingest, as state machines over the relational tables.          *)
(*                                                                         *)
(* A message text is represented by the set of lexical triggers it         *)
(* contains: every detector of the code is a substring or regex test on    *)
(* the text, so a text is known to the program only through those tests.   *)
(***************************************************************************)
EXTENDS Integers, Sequences, FiniteSets, TLC

\* ---------------------------------------------------------------- bounds
NumWorkers == 2
MaxTurns == 2
MaxChunks == 2
MaxIngests == 2

Workers == 1..NumWorkers

\* ------------------------------------------------------------- the data
Tenants == {"t1", "t2"}
\* default of the tenant_id parameter of RAGService.answer
GLOBAL == "global"
NoneStr == "none"

\* message texts, as the set of triggers they contain
QGeneric == {}
QEthnic == {"ethnic"}
QEthnicity == {"ethnic", "ethnicity"}
QRace == {"race"}
QHispanic == {"hispanic"}
QReligion == {"religion"}
QOrientation == {"sexual orientation"}
QRaceNav == {"race", "next_chapter"}
QNav == {"next_chapter"}
QListFirst == {"list_first"}
QListNext == {"list_next"}
QFieldPerson == {"field", "person"}
QFieldNoPerson == {"field"}
QFieldPronoun == {"field", "pronoun"}
QPolicy == {"policy"}
QChapterCount == {"chapter_count"}
QChapterTitles == {"field", "chapter_titles"}
QChapterSummary == {"chapter_summary"}
QEmpty == {"<empty>"}
\* a field that the request body does not carry
Absent == "<absent>"
QAbsent == {Absent}

QueryList ==
    << QGeneric, QEthnic, QEthnicity, QRace, QHispanic, QReligion, QOrientation,
       QRaceNav, QNav, QListFirst, QListNext,
       QFieldPerson, QFieldNoPerson, QFieldPronoun, QPolicy, QChapterCount,
       QChapterTitles, QChapterSummary >>

Queries == {QueryList[i] : i \in 1..Len(QueryList)}

\* hash(query): Python's string hash, one integer per text within a process
Hash(q) == CHOOSE i \in 1..Len(QueryList) : QueryList[i] = q

EmptyCtx ==
    [last_person |-> NoneStr, last_list_topic |-> NoneStr, last_chapter |-> NoneStr]
TopicCtx ==
    [last_person |-> NoneStr, last_list_topic |-> "T", last_chapter |-> NoneStr]

\* the answer object {response, citations, confidence, requiresHuman}; src is
\* the set of tenants whose chunks the response text was derived from
Answer(resp, src, cites, conf, human) ==
    [response |-> resp, src |-> src, citations |-> cites,
     confidence |-> conf, requiresHuman |-> human]

NoAnswer == Answer(NoneStr, {}, 0, 0, FALSE)

\* ------------------------------------------------------------ the state
VARIABLES
    \* relational tables (rows in insertion order; a row's id is its index)
    tenants, users, conversations, messages, knowledge_bases, documents, chunks,
    \* process-wide singletons: rag_service.retriever and redis_cache
    retriever, cache,
    \* the deployment: whether OPENAI_API_KEY configures a client, and the
    \* load of the run (requests handled in parallel, requests clients send)
    openai_client, load,
    \* one request per worker: position and locals of post_query
    pc, payload, turn, user_uuid, conversation, convo_ctx, corpus, candidates,
    tenant_param, contexts, result, hit, http, response,
    \* history: requests received, what the latest computation per key stored
    \* and returned, what a cache hit had to return and who had computed it,
    \* whether a request stored its result, whether it met a storage failure
    turns, lastReturned, hitExpected, hitBy, stored, storageFailure,
    \* one ingest call: position and locals of process_and_store
    ipc, ingest, ingests,
    \* a single function under study: the table and conversation memory it
    \* reads, the call made and the value returned
    table, memory, call, ret,
    \* the process-wide circuit_breaker, the wall clock, and the calls made
    \* through the breaker by concurrent tasks
    breaker, now, tasks,
    \* one RetryPolicy.execute_with_retry call: the policy, the loop variable,
    \* the outcome of every invocation, the delays slept, how it ended
    retry,
    \* the process-wide RedisCache object (_client, _disabled, _warned, the
    \* warnings it logged) and the operations threads have in progress on it
    redis_cache, ops,
    \* the gateway's SimpleRateLimiter: requests (key -> bucket of timestamps),
    \* and per key the times of the requests it allowed so far
    limiter, allowed

dbVars == << tenants, users, conversations, messages, knowledge_bases, documents,
            chunks >>
envVars == << openai_client, load >>
sharedVars == << retriever, cache, envVars >>
reqVars == << pc, payload, turn, user_uuid, conversation, convo_ctx, corpus,
              candidates, tenant_param, contexts, result, hit, http, response >>
histVars == << turns, lastReturned, hitExpected, hitBy, stored, storageFailure >>
ingVars == << ipc, ingest, ingests >>
fnVars == << table, memory, call, ret >>
rcVars == << redis_cache, ops >>
glVars == << limiter, allowed >>
libVars == << breaker, now, tasks, retry, rcVars, glVars >>

vars == << dbVars, sharedVars, reqVars, histVars, ingVars, fnVars, libVars >>

\* ------------------------------------------------------- table contents
\* Document row: the tenant is reached through knowledge_base.tenant_id
DocumentRow(t, status, n, cols) ==
    [tenant |-> t, status |-> status, chunk_count |-> n, columns |-> cols,
     title |-> "uploaded"]

\* KnowledgeChunk row; content is the chunk text: a text chunk with a chapter
\* heading, or a table row of person "P" whose requested field is full/empty
\* length of the vectors of text-embedding-3-small, of the fallback embedding
\* of DocumentService.embed, and of the vectors the index collection holds
OpenAIDim == 1536
FallbackDim == 256
IndexDim == 1536

\* embed: OpenAI vectors when OPENAI_API_KEY is set, hashed vectors otherwise
EmbeddingDim == IF openai_client THEN OpenAIDim ELSE FallbackDim

\* a KnowledgeChunk row; dim is the length of its embedding
ChunkRow(doc, idx, content) ==
    [document_id |-> doc, chunk_index |-> idx, content |-> content,
     dim |-> EmbeddingDim]

Content(t, kind, field) == [owner |-> t, kind |-> kind, field |-> field]

SeedKinds == {"none", "text", "row_full", "row_empty"}

\* what the two tenants uploaded before the requests of a run
Seeds ==
    { [t \in Tenants |-> "text"],
      [t \in Tenants |-> IF t = "t1" THEN "row_full" ELSE "text"],
      [t \in Tenants |-> IF t = "t1" THEN "row_empty" ELSE "row_full"],
      [t \in Tenants |-> IF t = "t1" THEN "none" ELSE "text"],
      [t \in Tenants |-> IF t = "t1" THEN "text" ELSE "none"] }

SeedContent(t, k) ==
    IF k = "text" THEN Content(t, "text", "")
    ELSE IF k = "row_full" THEN Content(t, "row", "v")
    ELSE Content(t, "row", "")

\* the tables after the tenants' earlier ingests: seed[t] says what t uploaded
SeedDocuments(seed) ==
    LET ts == <<"t1", "t2">>
        F[i \in 0..2] ==
            IF i = 0 THEN << >>
            ELSE IF seed[ts[i]] = "none" THEN F[i - 1]
            ELSE Append(F[i - 1],
                        DocumentRow(ts[i], "INDEXED", 1, seed[ts[i]] # "text"))
    IN F[2]

\* the tenants that uploaded something, each registered under a domain of
\* its own (Tenant.domain is unique)
SeedTenants(seed) ==
    { [id |-> t, domain |-> t] : t \in {u \in Tenants : seed[u] # "none"} }

\* the knowledge bases of the tenants that uploaded something: one each,
\* a row being the tenant_id of the knowledge base
SeedKnowledgeBases(seed) ==
    SelectSeq(<<"t1", "t2">>, LAMBDA t : seed[t] # "none")

SeedChunks(seed) ==
    LET ts == <<"t1", "t2">>
        F[i \in 0..2] ==
            IF i = 0 THEN << >>
            ELSE IF seed[ts[i]] = "none" THEN F[i - 1]
            ELSE Append(F[i - 1],
                        ChunkRow(Len(F[i - 1]) + 1, 0, SeedContent(ts[i], seed[ts[i]])))
    IN F[2]

\* ------------------------------------------------------------- requests
UserIds == {"u1"}
FreshIds == << "f1", "f2", "f3", "f4" >>

\* the requests the clients send: every kind of message from tenant t1's
\* known user, a second tenant's traffic, a request without a user id and a
\* request that brings a conversation context
ValidPayloads ==
    [tenant_id : {"t1"}, user_id : UserIds, channel : {"web"},
     message : Queries, context : {EmptyCtx}]
    \cup [tenant_id : {"t2"}, user_id : UserIds, channel : {"web"},
          message : {QGeneric, QFieldNoPerson, QRace}, context : {EmptyCtx}]
    \cup [tenant_id : {"t1"}, user_id : {""}, channel : {"web"},
          message : {QGeneric}, context : {EmptyCtx}]
    \cup [tenant_id : {"t1"}, user_id : UserIds, channel : {"web"},
          message : {QListNext}, context : {TopicCtx}]

InvalidPayloads ==
    [tenant_id : {"", "bad"}, user_id : {"u1"}, channel : {"web"},
     message : {QRace}, context : {EmptyCtx}]
    \cup [tenant_id : {"t1"}, user_id : {"bad"}, channel : {"web"},
          message : {QRace}, context : {EmptyCtx}]
    \cup [tenant_id : {"t1"}, user_id : {"u1"}, channel : {""},
          message : {QRace}, context : {EmptyCtx}]
    \cup [tenant_id : {"t1"}, user_id : {"u1"}, channel : {"web"},
          message : {QEmpty}, context : {EmptyCtx}]
    \cup {[tenant_id |-> Absent, user_id |-> "", channel |-> Absent,
           message |-> QAbsent, context |-> EmptyCtx],
          [tenant_id |-> "t1", user_id |-> "u1", channel |-> "web",
           message |-> QAbsent, context |-> EmptyCtx]}

Payloads == ValidPayloads \cup InvalidPayloads

Request(t, u, q) ==
    [tenant_id |-> t, user_id |-> u, channel |-> "web", message |-> q,
     context |-> EmptyCtx]

Seed(k1, k2) == [t \in Tenants |-> IF t = "t1" THEN k1 ELSE k2]

Load(seed, client, parallel, traffic) ==
    [seed |-> seed, client |-> client, parallel |-> parallel, traffic |-> traffic]

\* the runs explored: every request kind one request at a time over every
\* seed, and requests handled in parallel for the traffic that shares state
Loads ==
    {Load(s, c, 1, Payloads) : s \in Seeds, c \in BOOLEAN}
    \cup {Load(Seed("text", "text"), FALSE, NumWorkers,
                {Request("t1", "u1", QGeneric), Request("t2", "u1", QGeneric)}),
          Load(Seed("text", "text"), TRUE, NumWorkers,
                {Request("t1", "u1", QGeneric)}),
          Load(Seed("row_full", "text"), FALSE, NumWorkers,
                {Request("t1", "u1", QFieldPerson), Request("t1", "u1", QFieldPronoun)}),
          Load(Seed("text", "text"), FALSE, NumWorkers,
                {Request("t1", "u1", QFieldNoPerson), Request("t2", "u1", QFieldNoPerson)}),
          Load(Seed("text", "none"), FALSE, NumWorkers,
                {Request("t1", "u1", QNav), Request("t1", "u1", QRace),
                 Request("t2", "", QGeneric)})}

NoPayload ==
    [tenant_id |-> "", user_id |-> "", channel |-> "", message |-> QEmpty,
     context |-> EmptyCtx]

\* uuid.UUID(str(x)) succeeds
IsUuid(x) == x \in Tenants \cup UserIds

\* QueryRequest declares tenantId, channel and message as required: a body
\* without one of them fails the request validation of the framework, which
\* answers 422 without calling post_query.
\* lines 24-43: 400 on an empty field or a malformed identifier
Validate(p) ==
    IF p.tenant_id = Absent \/ p.message = QAbsent \/ p.channel = Absent THEN 422
    ELSE IF p.tenant_id = "" \/ p.message = QEmpty \/ p.channel = "" THEN 400
    ELSE IF ~IsUuid(p.tenant_id) THEN 400
    ELSE IF p.user_id # "" /\ ~IsUuid(p.user_id) THEN 400
    ELSE 200

sensitive_terms_short ==
    {"ethnic", "ethnicity", "race", "religion", "sexual orientation"}

\* line 47
sensitive_terms ==
    {"ethnic", "ethnicity", "race", "hispanic", "religion", "sexual orientation"}

\* line 48: any(term in lower_q for term in sensitive_terms)
IsSensitive(q) == q \cap sensitive_terms # {}

Refusal == Answer("refusal", {}, 0, 0, TRUE)

\* ----------------------------------------------------- the tenant corpus
CorpusLimit == 2000

Min(a, b) == IF a < b THEN a ELSE b

Reverse(sq) == [i \in 1..Len(sq) |-> sq[Len(sq) + 1 - i]]

RECURSIVE SelectSeq2(_, _)
SelectSeq2(sq, t) ==
    IF sq = << >> THEN << >>
    ELSE IF documents[Head(sq).document_id].tenant = t
         THEN << Head(sq) >> \o SelectSeq2(Tail(sq), t)
         ELSE SelectSeq2(Tail(sq), t)

\* lines 109-125: the tenant's chunks joined to their documents, newest
\* first, at most 2000; each with the columns flag of its document
TenantRows(t) ==
    LET mine == Reverse(SelectSeq2(chunks, t))
        top == SubSeq(mine, 1, Min(CorpusLimit, Len(mine)))
    IN [i \in 1..Len(top) |->
           [content |-> top[i].content,
            cols |-> documents[top[i].document_id].columns]]

Contents(rows) == [i \in 1..Len(rows) |-> rows[i].content]

Range(sq) == {sq[i] : i \in 1..Len(sq)}

Owners(ctxs) == {c.owner : c \in Range(ctxs)}

\* HybridRetriever.retrieve: the fused top_k of the indexed corpus; an
\* indexed corpus of at most top_k documents is returned whole
RetrieveTopK == 10

Retrieved(indexed, k) == SubSeq(indexed, 1, Min(k, Len(indexed)))

\* ------------------------------------------------- post_query: dispatch
Plan(kind, ans, ctx, tparam, db) ==
    [kind |-> kind, ans |-> ans, ctx |-> ctx, tparam |-> tparam, db |-> db]

\* lines 359-405: the rows of the snapshot that have columns and whose name
\* cell matches the requested person (every table row here is a row of "P")
MatchingRows(rows, name) ==
    {i \in 1..Len(rows) : rows[i].cols /\ rows[i].content.kind = "row" /\ name = "P"}

\* lines 323-484: tabular field lookup
TabularPlan(q, ctx, rows) ==
    LET person_context ==
            ("pronoun" \in q /\ ctx.last_person # NoneStr) \/ "person" \in q
        name == IF "person" \in q THEN "P" ELSE ctx.last_person
        matching == MatchingRows(rows, name)
        full == {i \in matching : rows[i].content.field # ""}
    IN IF ~person_context
       THEN Plan("answer", NoAnswer, ctx, GLOBAL, FALSE)
       ELSE IF matching = {}
       THEN Plan("reply", Answer("no_match", {}, 0, 0, TRUE), ctx, NoneStr, FALSE)
       ELSE IF full # {}
       THEN Plan("reply_ctx",
                 Answer("field", {rows[CHOOSE i \in full : TRUE].content.owner},
                        1, 90, FALSE),
                 [ctx EXCEPT !.last_person = "P"], NoneStr, FALSE)
       ELSE Plan("reply", Answer("field_empty", {}, 0, 0, TRUE), ctx, NoneStr, FALSE)

\* lines 141-491: the strategy chosen once the candidates are known.
\* candidates holds texts, and lines 172 and 249 use them as list indices:
\* with any candidate the comprehension raises TypeError
Dispatch(q, ctx, rows, cands, tenant) ==
    IF "next_chapter" \in q
    THEN IF cands # << >>
         THEN Plan("raise", NoAnswer, ctx, NoneStr, FALSE)
         ELSE IF \E i \in 1..Len(rows) : rows[i].content.kind = "text"
         THEN Plan("reply_ctx", Answer("next_chapter", {tenant}, 0, 90, FALSE),
                   [ctx EXCEPT !.last_chapter = "N+1"], NoneStr, FALSE)
         ELSE Plan("reply", Answer("no_next", {}, 0, 0, TRUE), ctx, NoneStr, FALSE)
    ELSE IF "list_first" \in q \/ "list_next" \in q
    THEN LET topic == IF "list_first" \in q THEN "T" ELSE ctx.last_list_topic
         IN IF topic = NoneStr
            THEN Plan("reply", Answer("no_topic", {}, 0, 0, FALSE), ctx, NoneStr, FALSE)
            ELSE IF cands # << >>
            THEN Plan("raise", NoAnswer, ctx, NoneStr, FALSE)
            ELSE Plan("reply", Answer("no_items", {}, 0, 0, TRUE), ctx, NoneStr, FALSE)
    ELSE IF "field" \in q
    THEN TabularPlan(q, ctx, rows)
    ELSE Plan("answer", NoAnswer, ctx, tenant, TRUE)

\* ------------------------------------------------ RAGService.answer: miss
\* outcomes of a chat completion: a grounded text, the no-info sentinel, or
\* an exception / empty text; without a client there is no call
GenOutcomes == IF openai_client THEN {"text", "sentinel", "fail"} ELSE {"none"}

\* chunks of tenant_id tp that carry chapter metadata (text chunks do)
HasChapters(tp) ==
    \E i \in 1..Len(chunks) :
        /\ documents[chunks[i].document_id].tenant = tp
        /\ chunks[i].content.kind = "text"

\* lines 316-583: the answer computed on a miss. g is the generator outcome,
\* qd says whether the vector index answers (it mirrors the chunk store and
\* filters by the tenant_id it is given), first is the context ranked first
Compute(q, ctxs, tp, db, g, qd, first) ==
    LET src == Owners(ctxs)
        cites == Min(6, Len(ctxs))
        generic ==
            IF g = "text" THEN Answer("generated", src, cites, 90, FALSE)
            ELSE IF g = "sentinel" THEN Answer("no_info", {}, cites, 90, FALSE)
            ELSE Answer("snippet", {first.owner}, cites, 90, FALSE)
    IN IF ctxs # << >> /\ "policy" \in q
       THEN [result |-> Answer("policy", src, Min(3, Len(ctxs)), 85, FALSE),
             set |-> "policy"]
       ELSE IF ctxs = << >>
       THEN [result |-> Answer("no_info", {}, 0, 0, TRUE), set |-> "own"]
       ELSE IF "chapter_count" \in q /\ qd /\ HasChapters(tp)
       THEN [result |-> Answer("chapter_count", {tp}, 0, 70, FALSE), set |-> "own"]
       ELSE IF "chapter_count" \in q /\ db /\ HasChapters(tp)
       THEN [result |-> Answer("chapter_count", {tp}, 0, 65, FALSE), set |-> "own"]
       ELSE IF "chapter_titles" \in q /\ (qd \/ db) /\ HasChapters(tp)
       THEN [result |-> Answer("chapter_titles", {tp}, 0, 75, FALSE), set |-> "own"]
       ELSE IF "chapter_summary" \in q /\ g \in {"text", "sentinel"}
       THEN [result |-> Answer("summary", src, 0, 80, FALSE), set |-> "own"]
       ELSE [result |-> generic, set |-> IF g = "sentinel" THEN "sentinel" ELSE "own"]

\* lines 596-651: the answer of the reformulation pass over dedup2, the
\* re-retrieved contexts merged with the first ones (never empty here)
Reformulated(dedup2, g2, first, cites) ==
    IF g2 = "text"
    THEN Answer("generated", Owners(dedup2), Min(6, Len(dedup2)), 90, FALSE)
    ELSE Answer("snippet", {first.owner}, cites, 60, FALSE)

\* ---------------------------------------------------- post_query: steps
GuardFallsThrough(p) == "get_user"

\* line 55: the guard returns the refusal and ends the request
GuardNext(p) == IF IsSensitive(p.message) THEN "done" ELSE "get_user"

\* requests being handled, and the free worker the pool hands the next one to
InFlight == {w \in Workers : pc[w] \notin {"idle", "done"}}

NextWorker ==
    IF InFlight = Workers THEN 0
    ELSE CHOOSE w \in Workers \ InFlight : \A v \in Workers \ InFlight : w <= v

\* lines 23-55: validation, user id synthesis, sensitive-attribute guard
Receive(w) ==
    /\ w = NextWorker
    /\ turns < MaxTurns
    /\ Cardinality(InFlight) < load.parallel
    /\ \E p \in load.traffic :
        LET code == Validate(p)
            nxt == IF code # 200 THEN "done" ELSE GuardNext(p)
        IN /\ payload' = [payload EXCEPT ![w] = p]
           /\ user_uuid' = [user_uuid EXCEPT ![w] =
                  IF p.user_id = "" THEN FreshIds[turns + 1] ELSE p.user_id]
           /\ pc' = [pc EXCEPT ![w] = nxt]
           /\ http' = [http EXCEPT ![w] =
                  IF code # 200 THEN code
                  ELSE IF IsSensitive(p.message) THEN 200 ELSE 0]
           /\ response' = [response EXCEPT ![w] =
                  IF code = 200 /\ IsSensitive(p.message) THEN Refusal ELSE NoAnswer]
    /\ turns' = turns + 1
    /\ turn' = [turn EXCEPT ![w] = turns + 1]
    /\ conversation' = [conversation EXCEPT ![w] = 0]
    /\ convo_ctx' = [convo_ctx EXCEPT ![w] = EmptyCtx]
    /\ corpus' = [corpus EXCEPT ![w] = << >>]
    /\ candidates' = [candidates EXCEPT ![w] = << >>]
    /\ tenant_param' = [tenant_param EXCEPT ![w] = NoneStr]
    /\ contexts' = [contexts EXCEPT ![w] = << >>]
    /\ result' = [result EXCEPT ![w] = NoAnswer]
    /\ hit' = [hit EXCEPT ![w] = FALSE]
    /\ hitExpected' = [hitExpected EXCEPT ![w] = NoAnswer]
    /\ hitBy' = [hitBy EXCEPT ![w] = NoneStr]
    /\ stored' = [stored EXCEPT ![w] = FALSE]
    /\ storageFailure' = [storageFailure EXCEPT ![w] = FALSE]
    /\ UNCHANGED << dbVars, sharedVars, lastReturned, ingVars, fnVars, libVars >>

\* conversation_service.py line 18: db.get(User, user_id)
GetUser(w) ==
    /\ pc[w] = "get_user"
    /\ pc' = [pc EXCEPT ![w] =
          IF user_uuid[w] \in users THEN "select_conversation" ELSE "insert_user"]
    /\ UNCHANGED << dbVars, sharedVars, payload, turn, user_uuid, conversation,
                    convo_ctx, corpus, candidates, tenant_param, contexts, result, hit,
                    http, response, histVars, ingVars, fnVars, libVars >>

\* lines 22-25: insert the user; the primary key rejects a second insert
InsertUser(w) ==
    /\ pc[w] = "insert_user"
    /\ IF user_uuid[w] \in users
       THEN /\ pc' = [pc EXCEPT ![w] = "done"]
            /\ http' = [http EXCEPT ![w] = 500]
            /\ storageFailure' = [storageFailure EXCEPT ![w] = TRUE]
            /\ UNCHANGED users
       ELSE /\ users' = users \cup {user_uuid[w]}
            /\ pc' = [pc EXCEPT ![w] = "select_conversation"]
                    /\ UNCHANGED << http, storageFailure >>
    /\ UNCHANGED << tenants, conversations, messages, knowledge_bases, documents,
                    chunks, sharedVars,
                    payload, turn, user_uuid, conversation, convo_ctx, corpus,
                    candidates, tenant_param, contexts, result, hit, response, turns,
                    lastReturned, hitExpected, hitBy, stored, ingVars, fnVars, libVars >>

ActiveFor(w) ==
    {i \in 1..Len(conversations) :
        /\ conversations[i].tenant_id = payload[w].tenant_id
        /\ conversations[i].user_id = user_uuid[w]
        /\ conversations[i].channel = payload[w].channel
        /\ conversations[i].status = "ACTIVE"}

\* lines 27-36: look the ACTIVE conversation up
SelectConversation(w) ==
    /\ pc[w] = "select_conversation"
    /\ IF ActiveFor(w) # {}
       THEN /\ conversation' = [conversation EXCEPT ![w] =
                  CHOOSE i \in ActiveFor(w) : \A j \in ActiveFor(w) : i <= j]
            /\ pc' = [pc EXCEPT ![w] = "add_user_message"]
       ELSE /\ pc' = [pc EXCEPT ![w] = "insert_conversation"]
            /\ UNCHANGED conversation
    /\ UNCHANGED << dbVars, sharedVars, payload, turn, user_uuid, convo_ctx,
                    corpus, candidates, tenant_param, contexts, result, hit, http,
                    response, histVars, ingVars, fnVars, libVars >>

\* lines 38-48: insert a new ACTIVE conversation
InsertConversation(w) ==
    /\ pc[w] = "insert_conversation"
    /\ conversations' = Append(conversations,
          [tenant_id |-> payload[w].tenant_id, user_id |-> user_uuid[w],
           channel |-> payload[w].channel, status |-> "ACTIVE",
           context |-> payload[w].context])
    /\ conversation' = [conversation EXCEPT ![w] = Len(conversations) + 1]
    /\ pc' = [pc EXCEPT ![w] = "add_user_message"]
    /\ UNCHANGED << tenants, users, messages, knowledge_bases, documents,
                    chunks, sharedVars, payload,
                    turn, user_uuid, convo_ctx, corpus, candidates, tenant_param,
                    contexts, result, hit, http, response, turns, lastReturned,
                    hitExpected, hitBy, stored, storageFailure, ingVars, fnVars, libVars >>

\* Message.timestamp defaults to func.now(): the clock of the database at the
\* insert, which two inserts made within one tick of it share
MessageRow(c, sender, t, q, text) ==
    [conversation_id |-> c, sender_type |-> sender, turn |-> t, query |-> q,
     content |-> text, timestamp |-> now]

NoKnowledge == Answer("no_knowledge", {}, 0, 0, TRUE)

UserMessageDeferred(w) == messages

\* line 65: add_message(conversation, "USER", payload.message), before the
\* corpus is loaded and any strategy runs
UserMessageLog(w) ==
    Append(messages,
           MessageRow(conversation[w], "USER", turn[w], payload[w].message, ""))

\* query.py lines 65-135: append the USER message, load the context and the
\* tenant corpus; an empty corpus is answered at once
AddUserMessage(w) ==
    /\ pc[w] = "add_user_message"
    /\ messages' = UserMessageLog(w)
    /\ convo_ctx' = [convo_ctx EXCEPT ![w] = conversations[conversation[w]].context]
    /\ LET rows == TenantRows(payload[w].tenant_id)
       IN /\ corpus' = [corpus EXCEPT ![w] = rows]
          /\ IF rows = << >>
             THEN /\ result' = [result EXCEPT ![w] = NoKnowledge]
                  /\ pc' = [pc EXCEPT ![w] = "add_system_message"]
             ELSE /\ pc' = [pc EXCEPT ![w] = "index"]
                  /\ UNCHANGED result
    /\ UNCHANGED << tenants, users, conversations, knowledge_bases, documents,
                    chunks, sharedVars, payload,
                    turn, user_uuid, conversation, candidates, tenant_param,
                    contexts, hit, http, response, turns, lastReturned, hitExpected, hitBy,
                    stored, storageFailure, ingVars, fnVars, libVars >>

\* HybridRetriever.index (rag_service.py lines 51-53), on the shared retriever
Index(w) ==
    /\ pc[w] = "index"
    /\ retriever' = Contents(corpus[w])
    /\ pc' = [pc EXCEPT ![w] = "retrieve"]
    /\ UNCHANGED << dbVars, cache, envVars, payload, turn, user_uuid,
                    conversation, convo_ctx, corpus, candidates, tenant_param,
                    contexts, result, hit, http, response, turns, lastReturned,
                    hitExpected, hitBy, stored, storageFailure, ingVars, fnVars, libVars >>

\* query.py line 139 and the dispatch of lines 141-491 on its result
Retrieve(w) ==
    /\ pc[w] = "retrieve"
    /\ LET cands == Retrieved(retriever, RetrieveTopK)
           plan == Dispatch(payload[w].message, convo_ctx[w], corpus[w], cands,
                            payload[w].tenant_id)
       IN /\ candidates' = [candidates EXCEPT ![w] = cands]
          /\ convo_ctx' = [convo_ctx EXCEPT ![w] = plan.ctx]
          /\ result' = [result EXCEPT ![w] = plan.ans]
          /\ tenant_param' = [tenant_param EXCEPT ![w] = plan.tparam]
          /\ pc' = [pc EXCEPT ![w] =
                CASE plan.kind = "raise" -> "done"
                  [] plan.kind = "reply" -> "add_system_message"
                  [] plan.kind = "reply_ctx" -> "save_context"
                  [] OTHER -> "cache_get"]
          /\ http' = [http EXCEPT ![w] = IF plan.kind = "raise" THEN 500 ELSE 0]
    /\ UNCHANGED << dbVars, sharedVars, payload, turn, user_uuid, conversation,
                    corpus, contexts, hit, response, histVars, ingVars, fnVars, libVars >>

\* query.py lines 178-186 and 465-472: conversation.context = convo_ctx; commit
SaveContext(w) ==
    /\ pc[w] = "save_context"
    /\ conversations' = [conversations EXCEPT ![conversation[w]].context = convo_ctx[w]]
    /\ pc' = [pc EXCEPT ![w] = "add_system_message"]
    /\ UNCHANGED << tenants, users, messages, knowledge_bases, documents,
                    chunks, sharedVars, payload,
                    turn, user_uuid, conversation, convo_ctx, corpus, candidates,
                    tenant_param, contexts, result, hit, http, response, turns,
                    lastReturned, hitExpected, hitBy, stored, storageFailure,
                    ingVars, fnVars, libVars >>

\* ---------------------------------------------------- the answer cache
\* redis key "tenant:{tid}:rag:answer:{tenant_id}:{hash(query)}"
CacheKey(tp, q) == << tp, Hash(q) >>

CacheEntry(tid, key, value, by) ==
    [tid |-> tid, key |-> key, value |-> value, by |-> by]

CacheAt(tid, key) == {e \in cache : e.tid = tid /\ e.key = key}

CachePut(tid, key, value, by) ==
    (cache \ CacheAt(tid, key)) \cup {CacheEntry(tid, key, value, by)}

LastReturnedAt(key) ==
    IF \E e \in lastReturned : e.key = key
    THEN (CHOOSE e \in lastReturned : e.key = key).value
    ELSE NoAnswer

Record(key, value) ==
    {e \in lastReturned : e.key # key} \cup {[key |-> key, value |-> value]}

RECURSIVE Dedup(_, _)
Dedup(sq, seen) ==
    IF sq = << >> THEN << >>
    ELSE IF Head(sq) \in seen THEN Dedup(Tail(sq), seen)
    ELSE << Head(sq) >> \o Dedup(Tail(sq), seen \cup {Head(sq)})

\* _qdrant_contexts: needs a query embedding and the index; filtered by tp
VectorHits(tp, qd, k) ==
    IF openai_client /\ qd /\ tp \in Tenants
    THEN LET c == Contents(TenantRows(tp)) IN SubSeq(c, 1, Min(k, Len(c)))
    ELSE << >>

\* rag_service.py lines 316-333
MergedContexts(pre, hits) ==
    IF hits = << >> THEN pre
    ELSE LET d == Dedup(pre \o hits, {}) IN SubSeq(d, 1, Min(20, Len(d)))

\* the context ranked first: rerank_contexts_via_llm may reorder with a client
Firsts(ctxs) ==
    IF ctxs = << >> THEN {Content(NoneStr, NoneStr, "")}
    ELSE IF openai_client THEN Range(ctxs) ELSE {Head(ctxs)}

\* rag_service.py lines 309-583: lookup, and on a miss the computation
CacheGet(w) ==
    /\ pc[w] = "cache_get"
    /\ LET tp == tenant_param[w]
           key == CacheKey(tp, payload[w].message)
           pre == SubSeq(candidates[w], 1, Min(6, Len(candidates[w])))
       IN \E ok \in BOOLEAN :
            IF ok /\ CacheAt(tp, key) # {}
            THEN LET e == CHOOSE x \in CacheAt(tp, key) : TRUE
                 IN /\ result' = [result EXCEPT ![w] = e.value]
                    /\ hit' = [hit EXCEPT ![w] = TRUE]
                    /\ hitBy' = [hitBy EXCEPT ![w] = e.by]
                    /\ hitExpected' = [hitExpected EXCEPT ![w] = LastReturnedAt(key)]
                    /\ pc' = [pc EXCEPT ![w] = "add_system_message"]
                    /\ UNCHANGED contexts
            ELSE \E g \in GenOutcomes, qd \in BOOLEAN :
                   LET ctxs == MergedContexts(pre, VectorHits(tp, qd, 8))
                   IN \E first \in Firsts(ctxs) :
                        LET c == Compute(payload[w].message, ctxs, tp,
                                         tp # GLOBAL, g, qd, first)
                        IN /\ result' = [result EXCEPT ![w] = c.result]
                           /\ contexts' = [contexts EXCEPT ![w] = ctxs]
                           /\ pc' = [pc EXCEPT ![w] =
                                 CASE c.set = "policy" -> "cache_set_policy"
                                   [] c.set = "sentinel" -> "cache_set_sentinel"
                                   [] OTHER -> "cache_set"]
                           /\ UNCHANGED << hit, hitBy, hitExpected >>
    /\ UNCHANGED << dbVars, sharedVars, payload, turn, user_uuid, conversation,
                    convo_ctx, corpus, candidates, tenant_param, http, response,
                    turns, lastReturned, stored, storageFailure, ingVars, fnVars, libVars >>

\* the tenant argument of the set_tenant_key call that stores the result:
\* line 382 (policy summary) passes "global", the other calls pass tenant_id
SetTenant(at, tp) == IF at = "cache_set_policy" THEN GLOBAL ELSE tp

\* lines 382, 399, 413, 441, 490, 538, 584: store the result (fail-open) and
\* return it, or go on to the reformulation pass when it is the sentinel
CacheSet(w) ==
    /\ pc[w] \in {"cache_set", "cache_set_policy", "cache_set_sentinel"}
    /\ LET tp == tenant_param[w]
           key == CacheKey(tp, payload[w].message)
           tid == SetTenant(pc[w], tp)
       IN \E ok \in BOOLEAN :
            /\ cache' = IF ok THEN CachePut(tid, key, result[w], payload[w].tenant_id)
                        ELSE cache
            /\ stored' = [stored EXCEPT ![w] = ok /\ tid = tp]
            /\ IF pc[w] = "cache_set_sentinel"
               THEN /\ pc' = [pc EXCEPT ![w] = "expand"]
                    /\ UNCHANGED lastReturned
               ELSE /\ pc' = [pc EXCEPT ![w] = "add_system_message"]
                    /\ lastReturned' = IF ok /\ tid = tp THEN Record(key, result[w])
                                       ELSE lastReturned
    /\ UNCHANGED << dbVars, retriever, envVars, payload, turn, user_uuid,
                    conversation, convo_ctx, corpus, candidates, tenant_param,
                    contexts, result, hit, http, response, turns, hitExpected,
                    hitBy, storageFailure, ingVars, fnVars, libVars >>

\* lines 586-652: expand_queries; without paraphrases the first result is
\* returned, otherwise the contexts are re-retrieved from the shared
\* retriever, the answer is regenerated, stored and returned
Expand(w) ==
    /\ pc[w] = "expand"
    /\ LET tp == tenant_param[w]
           key == CacheKey(tp, payload[w].message)
       IN \E e \in BOOLEAN :
            IF ~e
            THEN /\ lastReturned' = IF stored[w] THEN Record(key, result[w])
                                    ELSE lastReturned
                 /\ UNCHANGED << cache, result, stored >>
            ELSE \E g2 \in GenOutcomes, qd \in BOOLEAN, ok \in BOOLEAN :
                   LET expanded == Retrieved(retriever, 8) \o VectorHits(tp, qd, 6)
                       dedup2 == Dedup(expanded \o contexts[w], {})
                   IN \E first \in Firsts(dedup2) :
                        LET r2 == Reformulated(dedup2, g2, first,
                                               result[w].citations)
                        IN /\ result' = [result EXCEPT ![w] = r2]
                           /\ cache' = IF ok
                                       THEN CachePut(tp, key, r2, payload[w].tenant_id)
                                       ELSE cache
                           /\ stored' = [stored EXCEPT ![w] = ok]
                           /\ lastReturned' = IF ok THEN Record(key, r2)
                                              ELSE lastReturned
    /\ pc' = [pc EXCEPT ![w] = "add_system_message"]
    /\ UNCHANGED << dbVars, retriever, envVars, payload, turn, user_uuid,
                    conversation, convo_ctx, corpus, candidates, tenant_param,
                    contexts, hit, http, response, turns, hitExpected, hitBy,
                    storageFailure, ingVars, fnVars, libVars >>

\* the add_message(conversation, "SYSTEM", ...) and return that end every
\* answered path of post_query
AddSystemMessage(w) ==
    /\ pc[w] = "add_system_message"
    /\ messages' = Append(messages,
          MessageRow(conversation[w], "SYSTEM", turn[w], {}, result[w].response))
    /\ http' = [http EXCEPT ![w] = 200]
    /\ response' = [response EXCEPT ![w] = result[w]]
    /\ pc' = [pc EXCEPT ![w] = "done"]
    /\ UNCHANGED << tenants, users, conversations, knowledge_bases, documents,
                    chunks, sharedVars, payload,
                    turn, user_uuid, conversation, convo_ctx, corpus, candidates,
                    tenant_param, contexts, result, hit, turns, lastReturned,
                    hitExpected, hitBy, stored, storageFailure, ingVars, fnVars, libVars >>

\* redis drops an entry when its TTL (cache_ttl_seconds) has run out
Expire ==
    /\ \E e \in cache : cache' = cache \ {e}
    /\ UNCHANGED << dbVars, retriever, envVars, reqVars, histVars, ingVars, fnVars, libVars >>

\* --------------------------------------------------------------- ingest
\* the uploads: a text whose chunker yields `size` chunks, or a table of
\* `size` rows whose first row parses as a header or does not
IngestInputs ==
    [tenant : Tenants \cup {"bad"}, tabular : {FALSE},
     size : 0..MaxChunks, header : {FALSE}, kb : 0..Cardinality(Tenants)]
    \cup [tenant : Tenants \cup {"bad"}, tabular : {TRUE},
          size : 0..(MaxChunks + 1), header : BOOLEAN,
          kb : 0..Cardinality(Tenants)]

\* process_rows_and_store lines 451-461: the rows after the header row
DataRows(size, header) == IF header /\ size > 0 THEN size - 1 ELSE size

EmbedRaises == -1

\* embed: the number of vectors returned for n inputs. With an API key the
\* client's response holds whatever the service sent, or the call raises;
\* without one the fallback yields one vector per input
Embed(n) ==
    IF openai_client THEN {EmbedRaises} \cup 0..(MaxChunks + 1) ELSE {n}

\* the KnowledgeChunk rows added by enumerate(zip(chunks, embeddings))
ZippedChunks(doc, t, tabular, n, k) ==
    [i \in 1..Min(n, k) |->
        ChunkRow(doc, i - 1,
                 IF tabular THEN Content(t, "row", "v") ELSE Content(t, "text", ""))]

IngestFailed == /\ ipc' = "failed"
                /\ UNCHANGED << documents, chunks >>

\* _get_or_create_knowledge_base (lines 315-362): the id of the knowledge
\* base the document goes to. A provided id that names an existing knowledge
\* base is used as it is; otherwise the tenant's oldest one, or a new one
\* the vector index was not called
NotIndexed == [sent |-> 0, dim |-> 0, ops |-> << >>, gave_up |-> FALSE, raised |-> FALSE]

\* QDRANT_RETRIES, the attempts of one index operation
QdrantRetries == 3

\* QdrantService._with_retries: the calls made to the client and whether the
\* last exception is raised; qd says whether the index answers, and an index
\* that does not fails every call
with_retries(attempts, qd) ==
    [calls |-> IF qd THEN Min(1, attempts) ELSE attempts,
     raised |-> ~qd /\ attempts > 0]

\* the best-effort block without its handlers: the failure of the index
\* reaches process_and_store
IndexVectorsUnguarded(points, dim, qd) ==
    IF points = 0 \/ dim # IndexDim THEN NotIndexed
    ELSE [sent |-> points, dim |-> dim,
          ops |-> << with_retries(QdrantRetries, qd).calls,
                     with_retries(QdrantRetries, qd).calls >>,
          gave_up |-> ~qd, raised |-> with_retries(QdrantRetries, qd).raised]

\* process_and_store lines 271-289 (process_rows_and_store 495-511): when the
\* vectors have the dimension of the index, create_collection (its first
\* operation is get_collections) and upsert_knowledge_chunks run; each
\* catches what _with_retries raises, and so does the block itself
IndexVectors(points, dim, qd) ==
    IF points = 0 \/ dim # IndexDim THEN NotIndexed
    ELSE [sent |-> points, dim |-> dim,
          ops |-> << with_retries(QdrantRetries, qd).calls,
                     with_retries(QdrantRetries, qd).calls >>,
          gave_up |-> ~qd, raised |-> FALSE]

\* _get_or_create_knowledge_base, first part: the tenants table after the
\* best-effort insert of a missing tenant
EnsureTenant(t) ==
    IF \/ t \in {r.id : r \in tenants}
       \/ "seeded" \in {r.domain : r \in tenants}
    THEN tenants
    ELSE tenants \cup {[id |-> t, domain |-> "seeded"]}

GetOrCreateKb(t, provided) ==
    LET own == {i \in 1..Len(knowledge_bases) : knowledge_bases[i] = t}
    IN IF provided \in 1..Len(knowledge_bases) THEN provided
       ELSE IF own # {} THEN CHOOSE i \in own : \A j \in own : i <= j
       ELSE Len(knowledge_bases) + 1

\* the call up to its first commit: validation, the knowledge base (created
\* and committed when the tenant has none), then the Document row is
\* committed with status PROCESSING
CreateDocument ==
    /\ ipc # "store"
    /\ ingests < MaxIngests
    /\ ingests' = ingests + 1
    /\ \E inp \in IngestInputs :
        LET n == IF inp.tabular THEN DataRows(inp.size, inp.header) ELSE inp.size
            kb == GetOrCreateKb(inp.tenant, inp.kb)
            started == [tenant |-> inp.tenant, tabular |-> inp.tabular,
                        size |-> inp.size, header |-> inp.header, n |-> n,
                        kb |-> kb, doc |-> 0, returned |-> 0,
                        index |-> NotIndexed]
            kbs == IF kb > Len(knowledge_bases)
                   THEN Append(knowledge_bases, inp.tenant)
                   ELSE knowledge_bases
            \* a missing tenant is added as Tenant(name="Seeded Tenant",
            \* domain="seeded"); the unique constraint on domain rejects the
            \* row when the domain is taken, and the error is swallowed
            registered == EnsureTenant(inp.tenant)
        IN  IF ~IsUuid(inp.tenant) \/ (inp.tabular /\ inp.size = 0)
            THEN /\ ingest' = [started EXCEPT !.kb = 0]
                 /\ IngestFailed
                 /\ UNCHANGED << tenants, knowledge_bases >>
            ELSE /\ tenants' = registered
                 \* a new KnowledgeBase references tenants.id: a database that
                 \* enforces foreign keys rejects it for a missing tenant, one
                 \* that does not (SQLite by default) stores it
                 /\ \E foreign_keys \in BOOLEAN :
                     IF /\ kb > Len(knowledge_bases)
                        /\ inp.tenant \notin {r.id : r \in registered}
                        /\ foreign_keys
                     THEN /\ ingest' = [started EXCEPT !.kb = 0]
                          /\ IngestFailed
                          /\ UNCHANGED knowledge_bases
                     ELSE
                      /\ knowledge_bases' = kbs
                      /\ IF inp.tabular /\ n = 0
                         THEN /\ ingest' = started
                              /\ IngestFailed
                         ELSE \E committed \in BOOLEAN :
                                IF committed
                                THEN /\ documents' = Append(documents,
                                           DocumentRow(kbs[kb], "PROCESSING", 0,
                                                       inp.tabular /\ inp.header))
                                     /\ ingest' = [started EXCEPT !.doc = Len(documents) + 1]
                                     /\ ipc' = "store"
                                     /\ UNCHANGED chunks
                                ELSE /\ ingest' = started
                                     /\ IngestFailed
    /\ UNCHANGED << users, conversations, messages, sharedVars, reqVars,
                    histVars, fnVars, libVars >>

\* the rest of the call: chunk, embed, add the chunk rows, mark the document
\* INDEXED and commit; any exception rolls the open transaction back
StoreChunks ==
    /\ ipc = "store"
    /\ \/ /\ ingest.n = 0
          /\ ingest' = ingest
          /\ IngestFailed
       \/ /\ ingest.n > 0
          /\ \E k \in Embed(ingest.n), committed \in BOOLEAN, qd \in BOOLEAN :
                IF k # EmbedRaises /\ committed
                THEN LET rows == ZippedChunks(ingest.doc, ingest.tenant,
                                              ingest.tabular, ingest.n, k)
                         indexed == IndexVectors(Len(rows), EmbeddingDim, qd)
                     IN /\ chunks' = chunks \o rows
                        /\ documents' = [documents EXCEPT ![ingest.doc] =
                               [@ EXCEPT !.status = "INDEXED", !.chunk_count = ingest.n]]
                        /\ ingest' = [ingest EXCEPT
                               !.index = indexed,
                               !.returned = IF indexed.raised THEN 0
                                            ELSE IF ingest.tabular THEN ingest.size
                                            ELSE ingest.n]
                        \* an exception after the commit reaches the outer
                        \* except: nothing is left to roll back, the call raises
                        /\ ipc' = IF indexed.raised THEN "failed" ELSE "done"
                ELSE /\ ingest' = ingest
                     /\ IngestFailed
    /\ UNCHANGED << tenants, users, conversations, messages, knowledge_bases,
                    sharedVars, reqVars, histVars, ingests, fnVars, libVars >>

\* ------------------------------------------- tabular lookup in detail
\* A text is the sequence of its words; "," stands for a comma after the word
\* before it, << >> for the empty text or an absent value.
MaxRows == 2

Candidates ==
    { << >>, <<"a", "b">>, <<"B", ",", "A">>, <<"C", "D">>,
      <<"this", "year">>, <<"the", "policy">> }

\* the uploaded tables. A row under its header: the cell of the preferred
\* name column (empty when the table has none), the manager cell, the
\* requested field
Tables ==
    LET NameCells == { << >>, <<"A", "B">>, <<"B", ",", "A">>, <<"C", "D">> }
        TableRows == [name : NameCells, manager : {<< >>, <<"A", "B">>},
                      salary : {<< >>, <<"v">>}]
    IN UNION {[1..n -> TableRows] : n \in 1..MaxRows}

\* query.py lines 75-76: norm_name lower-cases and collapses white space
norm_name(s) ==
    [i \in 1..Len(s) |->
        CASE s[i] = "A" -> "a" [] s[i] = "B" -> "b" [] s[i] = "C" -> "c"
          [] s[i] = "D" -> "d" [] OTHER -> s[i]]

\* query.py lines 78-85: the normalized text and, when the raw text has a
\* comma, its second part followed by its first
name_variants(raw) ==
    LET cs == {i \in 1..Len(raw) : raw[i] = ","}
        c1 == CHOOSE i \in cs : \A j \in cs : i <= j
        later == {j \in cs : j > c1}
        c2 == IF later = {} THEN Len(raw) + 1
              ELSE CHOOSE i \in later : \A j \in later : i <= j
    IN {norm_name(raw)} \cup
       (IF cs = {} THEN {}
        ELSE {norm_name(SubSeq(raw, c1 + 1, c2 - 1) \o SubSeq(raw, 1, c1 - 1))})

\* query.py lines 87-107
looks_like_person(raw) ==
    /\ raw # << >>
    /\ Range(norm_name(raw)) \cap {"chapter", "policy", "process"} = {}
    /\ \/ "," \in Range(raw)
       \/ Len(raw) \in 2..4

\* query.py lines 368-391: the row's name cell equals a variant, or, failing
\* that, any cell of the row does
is_match(row, person_names) ==
    LET row_name == norm_name(row.name)
        person_norms == {norm_name(v) : v \in person_names}
    IN \/ row_name # << >> /\ row_name \in person_norms
       \/ \E v \in {row.name, row.manager, row.salary} :
             norm_name(v) \in person_norms

\* query.py lines 323-484 for a question that names a field: cand is the
\* text captured after "of"/"for", pronoun says whether a pronoun occurs,
\* last is context.last_person. A question without person context goes to
\* RAGService.answer, which decides confidence and requires_human
FieldLookup(cand, pronoun, last, rows) ==
    LET FieldReply(kind, row, conf, human, generic, lp) ==
            [fn |-> "field", kind |-> kind, row |-> row, confidence |-> conf,
             requiresHuman |-> human, generic |-> generic, last_person |-> lp]
        person_context ==
            (pronoun /\ last # << >>) \/ (cand # << >> /\ looks_like_person(cand))
        person_name_raw == IF cand # << >> THEN cand ELSE last
        matching == {i \in 1..Len(rows) :
                        is_match(rows[i], name_variants(person_name_raw))}
        full == {i \in matching : rows[i].salary # << >>}
        best == CHOOSE i \in full : \A j \in full : i <= j
    IN IF ~person_context
       THEN FieldReply("generic", 0, 0, FALSE, TRUE, last)
       ELSE IF matching = {}
       THEN FieldReply("no_match", 0, 0, TRUE, FALSE, last)
       ELSE IF full # {}
       THEN FieldReply("field", best, 90, FALSE, FALSE,
                       IF rows[best].name # << >> THEN rows[best].name
                       ELSE person_name_raw)
       ELSE FieldReply("field_empty", 0, 0, TRUE, FALSE, last)

\* one field question in the conversation
AskField ==
    /\ \E cand \in Candidates, pronoun \in BOOLEAN :
        LET r == FieldLookup(cand, pronoun, memory, table)
        IN /\ call' = [fn |-> "field", candidate |-> cand, pronoun |-> pronoun,
                       last_person |-> memory]
           /\ ret' = r
           /\ memory' = r.last_person
    /\ UNCHANGED << dbVars, sharedVars, reqVars, histVars, ingVars, libVars, table >>

\* ------------------------------------------- internal knowledge API
\* rbac.py: ROLE_PERMISSIONS and has_permission; a role that is no Role has
\* no permission
has_permission(role, permission) ==
    permission \in
        CASE role = "ADMIN" -> {"KB_VIEW", "KB_EDIT", "KB_PUBLISH", "USER_MANAGE",
                                "ANALYTICS_VIEW"}
          [] role = "MANAGER" -> {"KB_VIEW", "KB_EDIT", "KB_PUBLISH", "ANALYTICS_VIEW"}
          [] role = "AGENT" -> {"KB_VIEW"}
          [] OTHER -> {}

\* the bearer tokens presented: verified or not, with the claims they carry
Tokens ==
    [valid : BOOLEAN, tenant_id : Tenants \cup {""},
     role : {"ADMIN", "MANAGER", "AGENT", "END_USER", "GUEST"}]

\* GET /v1/internal/knowledge/list: list_knowledge and
\* InternalKnowledgeService.list_documents; PermissionError is not caught
\* by the endpoint and reaches the global exception handler
ListKnowledge ==
    /\ \E tok \in Tokens :
        /\ call' = [fn |-> "list_knowledge", token |-> tok, id |-> 0]
        /\ ret' = IF ~tok.valid THEN [fn |-> "list_knowledge", status |-> 401, docs |-> {}]
                  ELSE IF tok.tenant_id = ""
                  THEN [fn |-> "list_knowledge", status |-> 400, docs |-> {}]
                  ELSE IF ~has_permission(tok.role, "KB_VIEW")
                  THEN [fn |-> "list_knowledge", status |-> 500, docs |-> {}]
                  ELSE [fn |-> "list_knowledge", status |-> 200,
                        docs |-> 1..Len(documents)]
    /\ UNCHANGED << dbVars, sharedVars, reqVars, histVars, ingVars, libVars, table, memory >>

\* POST /v1/internal/knowledge/update: update_knowledge and
\* InternalKnowledgeService.update_document; id 0 is a body without id
UpdateKnowledge ==
    /\ \E tok \in Tokens, id \in 0..(Len(documents) + 1) :
        LET status == IF ~tok.valid THEN 401
                      ELSE IF id = 0 THEN 400
                      ELSE IF ~has_permission(tok.role, "KB_EDIT") THEN 403
                      ELSE IF id > Len(documents) THEN 404
                      ELSE 200
        IN /\ call' = [fn |-> "update_knowledge", token |-> tok, id |-> id]
           /\ ret' = [fn |-> "update_knowledge", status |-> status,
                      docs |-> IF status = 200 THEN {id} ELSE {}]
           /\ documents' = IF status = 200
                           THEN [documents EXCEPT ![id].title = "edited"]
                           ELSE documents
    /\ UNCHANGED << tenants, users, conversations, messages, knowledge_bases, chunks,
                    sharedVars, reqVars, histVars, ingVars, libVars, table, memory >>

\* ------------------------------------------- reciprocal rank fusion
\* corpus indexes the two searches rank
NumDocs == 4
MaxListLen == 3

\* rag_service.py: rrf_fuse(..., k: int = 60, ...); retrieve never overrides it
RRF_K == 60

\* what keyword_search and dense_search return, with or without the exact
\* matches inserted at the front: corpus indexes, each at most once
RankedLists ==
    { l \in UNION { [1..n -> 0..(NumDocs - 1)] : n \in 0..MaxListLen } :
        \A i, j \in 1..Len(l) : i # j => l[i] # l[j] }

\* a score the other way round: k + rank itself is added, so a later rank
\* scores higher
rrf_score_by_rank(lists, k, doc_id) ==
    LET hits(l) == {r \in 1..Len(l) : l[r] = doc_id}
        total[i \in 0..Len(lists)] ==
            IF i = 0 THEN 0
            ELSE total[i - 1]
                 + (IF hits(lists[i]) = {} THEN 0
                    ELSE k + (CHOOSE r \in hits(lists[i]) : TRUE))
    IN << total[Len(lists)], 1 >>

\* ranks[doc_id] after the two loops of rrf_fuse: the sum of 1.0 / (k + rank)
\* over every occurrence of doc_id, as the fraction << numerator, denominator >>.
\* Two different sums of at most a handful of such terms differ by more than
\* 1e-6, far above the rounding of a double near 0.03, so float comparison
\* and comparison of the fractions order the scores the same way
rrf_score(lists, k, doc_id) ==
    LET Add(p, q) == << p[1] * q[2] + q[1] * p[2], p[2] * q[2] >>
        ListScore(l) ==
            LET s[r \in 0..Len(l)] ==
                    IF r = 0 THEN << 0, 1 >>
                    ELSE IF l[r] = doc_id THEN Add(s[r - 1], << 1, k + r >>)
                    ELSE s[r - 1]
            IN s[Len(l)]
        total[i \in 0..Len(lists)] ==
            IF i = 0 THEN << 0, 1 >> ELSE Add(total[i - 1], ListScore(lists[i]))
    IN total[Len(lists)]

\* rag_service.py: HybridRetriever.rrf_fuse. ranks is a dict, so its items
\* come in the order of first insertion; sorted(..., reverse=True) is stable
\* and keeps that order among equal scores; fused[:top_k] cuts
rrf_fuse(lists, k, top_k) ==
    LET flat[i \in 0..Len(lists)] ==
            IF i = 0 THEN << >> ELSE flat[i - 1] \o lists[i]
        all == flat[Len(lists)]
        keys[j \in 0..Len(all)] ==
            IF j = 0 THEN << >>
            ELSE IF all[j] \in Range(keys[j - 1]) THEN keys[j - 1]
            ELSE Append(keys[j - 1], all[j])
        items == keys[Len(all)]
        score(i) == rrf_score(lists, k, items[i])
        Before(i, j) ==
            \/ score(i)[1] * score(j)[2] > score(j)[1] * score(i)[2]
            \/ /\ score(i)[1] * score(j)[2] = score(j)[1] * score(i)[2]
               /\ i < j
        place(i) == 1 + Cardinality({j \in 1..Len(items) : Before(j, i)})
        fused == [p \in 1..Len(items) |->
                     items[CHOOSE i \in 1..Len(items) : place(i) = p]]
    IN SubSeq(fused, 1, Min(top_k, Len(fused)))

\* HybridRetriever.retrieve: fused_ids = self.rrf_fuse([kw, dn], top_k=top_k),
\* applied to the two lists of the pending call
RetrieveFuse ==
    /\ call.fn = "rrf_fuse"
    /\ ret.fn = NoneStr
    /\ ret' = [fn |-> "rrf_fuse", fused |-> rrf_fuse(call.lists, RRF_K, call.top_k)]
    /\ UNCHANGED << dbVars, sharedVars, reqVars, histVars, ingVars, libVars, table, memory,
                    call >>

\* ------------------------------------------------ circuit breaker
\* concurrent calls through the breaker, ticks of the clock, and the
\* parameters CircuitBreaker is constructed with
NumTasks == 2
MaxTime == 4
failure_threshold == 2
recovery_timeout == 2

NoRetry == [status |-> "idle"]

\* rate-limit keys "<client ip>:<path>": two clients of one endpoint
Keys == {"ip1:/p", "ip2:/p"}

\* CircuitBreaker.__init__; no call is in progress
LibIdle ==
    /\ breaker = [state |-> "CLOSED", failure_count |-> 0, last_failure_time |-> -1]
    /\ now = 0
    /\ tasks = [t \in 1..NumTasks |-> [pc |-> "idle", trial |-> FALSE, last |-> NoneStr]]
    /\ retry = NoRetry
    /\ redis_cache = [client |-> FALSE, disabled |-> FALSE, warned |-> FALSE,
                      warnings |-> 0]
    /\ ops = [t \in 1..NumTasks |-> [pc |-> "idle", op |-> NoneStr, failed |-> FALSE,
                                     last |-> NoneStr]]
    /\ limiter = << >>
    /\ allowed = [key \in Keys |-> << >>]

\* _should_attempt_reset; last_failure_time -1 is None
should_attempt_reset ==
    \/ breaker.last_failure_time = -1
    \/ now - breaker.last_failure_time >= recovery_timeout

\* a failure count that opens the breaker one failure late
record_failure_late(b) ==
    LET counted == [b EXCEPT !.failure_count = @ + 1, !.last_failure_time = now]
    IN IF counted.failure_count > failure_threshold
       THEN [counted EXCEPT !.state = "OPEN"]
       ELSE counted

\* _record_failure
record_failure(b) ==
    LET counted == [b EXCEPT !.failure_count = @ + 1, !.last_failure_time = now]
    IN IF counted.failure_count >= failure_threshold
       THEN [counted EXCEPT !.state = "OPEN"]
       ELSE counted

\* a success that resets the breaker in whatever state it finds it
record_success_resets(b) ==
    [b EXCEPT !.failure_count = 0, !.state = "CLOSED"]

\* _record_success, with _reset
record_success(b) ==
    IF b.state = "HALF_OPEN"
    THEN [b EXCEPT !.failure_count = 0, !.state = "CLOSED"]
    ELSE IF b.state = "CLOSED"
    THEN [b EXCEPT !.failure_count = IF @ > 0 THEN @ - 1 ELSE 0]
    ELSE b

\* time passes
Tick ==
    /\ now < MaxTime
    /\ now' = now + 1
    /\ UNCHANGED << dbVars, sharedVars, reqVars, histVars, ingVars, fnVars,
                    breaker, tasks, retry, rcVars, glVars >>

\* CircuitBreaker.call up to the await of the wrapped function: an OPEN
\* breaker either turns HALF_OPEN or raises without calling
CallEnter(t) ==
    /\ tasks[t].pc = "idle"
    /\ IF breaker.state = "OPEN"
       THEN IF should_attempt_reset
            THEN /\ breaker' = [breaker EXCEPT !.state = "HALF_OPEN"]
                 /\ tasks' = [tasks EXCEPT ![t] =
                                [pc |-> "running", trial |-> TRUE, last |-> NoneStr]]
            ELSE /\ tasks' = [tasks EXCEPT ![t] =
                                [pc |-> "idle", trial |-> FALSE, last |-> "rejected"]]
                 /\ UNCHANGED breaker
       ELSE /\ tasks' = [tasks EXCEPT ![t] =
                           [pc |-> "running", trial |-> FALSE, last |-> NoneStr]]
            /\ UNCHANGED breaker
    /\ UNCHANGED << dbVars, sharedVars, reqVars, histVars, ingVars, fnVars, now,
                    retry, rcVars, glVars >>

\* CircuitBreaker.call from the return of the wrapped function on
CallReturn(t) ==
    /\ tasks[t].pc = "running"
    /\ \E raised \in BOOLEAN :
        /\ breaker' = IF raised THEN record_failure(breaker)
                      ELSE record_success(breaker)
        /\ tasks' = [tasks EXCEPT ![t].pc = "idle",
                                  ![t].last = IF raised THEN "raised" ELSE "returned"]
    /\ UNCHANGED << dbVars, sharedVars, reqVars, histVars, ingVars, fnVars, now,
                    retry, rcVars, glVars >>

\* ------------------------------------------------------ retry policy
\* the policies constructed: max_retries up to MaxRetries, delays up to MaxDelay
MaxRetries == 3
MaxDelay == 5

\* a backoff without the cap
get_delay_uncapped(policy, attempt) == policy.base_delay * (2 ^ attempt)

\* RetryPolicy.get_delay
get_delay(policy, attempt) ==
    Min(policy.base_delay * (2 ^ attempt), policy.max_delay)

\* execute_with_retry is entered: attempt 0 of range(max_retries + 1)
RetryEntered(policy) ==
    [status |-> "running", policy |-> policy, attempt |-> 0,
     outcomes |-> << >>, delays |-> << >>, result |-> 0]

\* one turn of the loop of execute_with_retry: the function is invoked and
\* returns or raises; result is the number of the invocation whose value is
\* returned or whose exception is raised
RetryAttempt ==
    /\ retry.status = "running"
    /\ \E raised \in BOOLEAN :
        LET invoked == Len(retry.outcomes) + 1
        IN retry' =
            IF ~raised
            THEN [retry EXCEPT !.status = "returned", !.result = invoked,
                               !.outcomes = Append(@, "returned")]
            ELSE IF retry.attempt = retry.policy.max_retries
            THEN [retry EXCEPT !.status = "raised", !.result = invoked,
                               !.outcomes = Append(@, "raised")]
            ELSE [retry EXCEPT !.outcomes = Append(@, "raised"),
                               !.delays = Append(@, get_delay(retry.policy, retry.attempt)),
                               !.attempt = @ + 1]
    /\ UNCHANGED << dbVars, sharedVars, reqVars, histVars, ingVars, fnVars,
                    breaker, now, tasks, rcVars, glVars >>

\* ---------------------------------------------- RedisCache, fail-open
\* get_tenant_key, set_tenant_key or delete_tenant_key up to the test of
\* _warned. met says what the operation meets: no client can be created
\* (get_client disables the cache), the client raises, or the client answers
\* (a get then finds a value or none). A disabled cache returns at once
OpBegin(t) ==
    /\ ops[t].pc = "idle"
    /\ \E op \in {"get", "set", "delete"},
          met \in {"unavailable", "error", "value", "none"} :
        /\ met = "unavailable" => ~redis_cache.client
        /\ LET fails == redis_cache.disabled \/ met \in {"unavailable", "error"}
               warns == ~redis_cache.disabled /\ fails /\ ~redis_cache.warned
           IN /\ redis_cache' =
                    IF redis_cache.disabled THEN redis_cache
                    ELSE IF met = "unavailable"
                    THEN [redis_cache EXCEPT !.disabled = TRUE]
                    ELSE [redis_cache EXCEPT !.client = TRUE]
              /\ ops' = [ops EXCEPT ![t] =
                    [pc |-> IF warns THEN "warn" ELSE "idle",
                     op |-> op, failed |-> fails,
                     last |-> IF warns THEN NoneStr
                              ELSE IF fails \/ met = "none" THEN "no_value"
                              ELSE "value"]]
    /\ UNCHANGED << dbVars, sharedVars, reqVars, histVars, ingVars, fnVars,
                    breaker, now, tasks, retry, glVars >>

\* logger.warning(...) of the failing operation
OpWarn(t) ==
    /\ ops[t].pc = "warn"
    /\ redis_cache' = [redis_cache EXCEPT !.warnings = @ + 1]
    /\ ops' = [ops EXCEPT ![t].pc = "mark"]
    /\ UNCHANGED << dbVars, sharedVars, reqVars, histVars, ingVars, fnVars,
                    breaker, now, tasks, retry, glVars >>

\* self._warned = True, and the no-value result is returned
OpMark(t) ==
    /\ ops[t].pc = "mark"
    /\ redis_cache' = [redis_cache EXCEPT !.warned = TRUE]
    /\ ops' = [ops EXCEPT ![t].pc = "idle", ![t].last = "no_value"]
    /\ UNCHANGED << dbVars, sharedVars, reqVars, histVars, ingVars, fnVars,
                    breaker, now, tasks, retry, glVars >>

\* ------------------------------------------------------ specifications
NoIngest ==
    [tenant |-> NoneStr, tabular |-> FALSE, size |-> 0, header |-> FALSE,
     n |-> 0, kb |-> 0, doc |-> 0, returned |-> 0, index |-> NotIndexed]

RequestsIdle ==
    /\ pc = [w \in Workers |-> "idle"]
    /\ payload = [w \in Workers |-> NoPayload]
    /\ turn = [w \in Workers |-> 0]
    /\ user_uuid = [w \in Workers |-> ""]
    /\ conversation = [w \in Workers |-> 0]
    /\ convo_ctx = [w \in Workers |-> EmptyCtx]
    /\ corpus = [w \in Workers |-> << >>]
    /\ candidates = [w \in Workers |-> << >>]
    /\ tenant_param = [w \in Workers |-> NoneStr]
    /\ contexts = [w \in Workers |-> << >>]
    /\ result = [w \in Workers |-> NoAnswer]
    /\ hit = [w \in Workers |-> FALSE]
    /\ http = [w \in Workers |-> 0]
    /\ response = [w \in Workers |-> NoAnswer]
    /\ turns = 0
    /\ lastReturned = {}
    /\ hitExpected = [w \in Workers |-> NoAnswer]
    /\ hitBy = [w \in Workers |-> NoneStr]
    /\ stored = [w \in Workers |-> FALSE]
    /\ storageFailure = [w \in Workers |-> FALSE]
    /\ retriever = << >>
    /\ cache = {}

IngestIdle ==
    /\ ipc = "idle"
    /\ ingest = NoIngest
    /\ ingests = 0

NoCall == [fn |-> NoneStr]

FnIdle ==
    /\ table = << >>
    /\ memory = << >>
    /\ call = NoCall
    /\ ret = NoCall

\* the service after start-up, with the uploads the tenants made earlier
Init ==
    /\ users = {}
    /\ conversations = << >>
    /\ messages = << >>
    /\ \E l \in Loads :
        /\ openai_client = l.client
        /\ tenants = SeedTenants(l.seed)
        /\ knowledge_bases = SeedKnowledgeBases(l.seed)
        /\ documents = SeedDocuments(l.seed)
        /\ chunks = SeedChunks(l.seed)
        /\ load = [parallel |-> l.parallel, traffic |-> l.traffic]
    /\ RequestsIdle
    /\ IngestIdle
    /\ FnIdle
    /\ LibIdle

Next ==
    \/ \E w \in Workers : Receive(w)
    \/ \E w \in Workers : GetUser(w)
    \/ \E w \in Workers : InsertUser(w)
    \/ \E w \in Workers : SelectConversation(w)
    \/ \E w \in Workers : InsertConversation(w)
    \/ \E w \in Workers : AddUserMessage(w)
    \/ \E w \in Workers : Index(w)
    \/ \E w \in Workers : Retrieve(w)
    \/ \E w \in Workers : SaveContext(w)
    \/ \E w \in Workers : CacheGet(w)
    \/ \E w \in Workers : CacheSet(w)
    \/ \E w \in Workers : Expand(w)
    \/ \E w \in Workers : AddSystemMessage(w)
    \/ Expire

Spec == Init /\ [][Next]_vars

\* the document service alone: uploads arriving one after the other
InitIngest ==
    /\ users = {}
    /\ conversations = << >>
    /\ messages = << >>
    /\ \E seed \in Seeds, client \in BOOLEAN :
        /\ openai_client = client
        /\ tenants = SeedTenants(seed)
        /\ knowledge_bases = SeedKnowledgeBases(seed)
        /\ documents = SeedDocuments(seed)
        /\ chunks = SeedChunks(seed)
        /\ load = [parallel |-> 0, traffic |-> {}]
    /\ RequestsIdle
    /\ IngestIdle
    /\ FnIdle
    /\ LibIdle

NextIngest ==
    \/ CreateDocument
    \/ StoreChunks

SpecIngest == InitIngest /\ [][NextIngest]_vars

\* no request, no upload, empty tables
Quiet ==
    /\ tenants = {}
    /\ users = {}
    /\ conversations = << >>
    /\ messages = << >>
    /\ knowledge_bases = << >>
    /\ documents = << >>
    /\ chunks = << >>
    /\ openai_client = FALSE
    /\ load = [parallel |-> 0, traffic |-> {}]
    /\ RequestsIdle
    /\ IngestIdle
    /\ LibIdle

\* a conversation of field questions over one uploaded table
InitTabular ==
    /\ Quiet
    /\ table \in Tables
    /\ memory = << >>
    /\ call = NoCall
    /\ ret = NoCall

SpecTabular == InitTabular /\ [][AskField]_vars

\* the internal knowledge API over the documents the tenants uploaded
NextInternal ==
    \/ ListKnowledge
    \/ UpdateKnowledge

\* ingests into a fresh deployment: only the tenant seeded at startup exists
InitFirstIngest ==
    /\ tenants = {[id |-> GLOBAL, domain |-> GLOBAL]}
    /\ users = {}
    /\ conversations = << >>
    /\ messages = << >>
    /\ knowledge_bases = << >>
    /\ documents = << >>
    /\ chunks = << >>
    /\ openai_client \in BOOLEAN
    /\ load = [parallel |-> 0, traffic |-> {}]
    /\ RequestsIdle
    /\ IngestIdle
    /\ FnIdle
    /\ LibIdle

SpecFirstIngest == InitFirstIngest /\ [][NextIngest]_vars

\* the deployment is restarted between two ingests with OPENAI_API_KEY set
\* or unset: embed and _embed_query read the environment
Reconfigure ==
    /\ ipc # "store"
    /\ openai_client' = ~openai_client
    /\ UNCHANGED << dbVars, retriever, cache, load, reqVars, histVars, ingVars,
                    fnVars, libVars >>

NextProvider ==
    \/ CreateDocument
    \/ StoreChunks
    \/ Reconfigure

SpecProvider == InitFirstIngest /\ [][NextProvider]_vars

\* request threads of the worker pool operating on the shared cache object
NextCache ==
    \/ \E t \in 1..NumTasks : OpBegin(t)
    \/ \E t \in 1..NumTasks : OpWarn(t)
    \/ \E t \in 1..NumTasks : OpMark(t)

InitCache ==
    /\ Quiet
    /\ FnIdle

SpecCache == InitCache /\ [][NextCache]_vars

SpecInternal == InitIngest /\ [][NextInternal]_vars

\* tasks calling a flaky dependency through the shared breaker
NextBreaker ==
    \/ Tick
    \/ \E t \in 1..NumTasks : CallEnter(t)
    \/ \E t \in 1..NumTasks : CallReturn(t)

InitBreaker ==
    /\ Quiet
    /\ FnIdle

SpecBreaker == InitBreaker /\ [][NextBreaker]_vars

\* one call of execute_with_retry under each policy; every await of the
\* loop (the function, asyncio.sleep) completes, so the loop keeps turning
InitRetry ==
    /\ tenants = {}
    /\ users = {}
    /\ conversations = << >>
    /\ messages = << >>
    /\ knowledge_bases = << >>
    /\ documents = << >>
    /\ chunks = << >>
    /\ openai_client = FALSE
    /\ load = [parallel |-> 0, traffic |-> {}]
    /\ RequestsIdle
    /\ IngestIdle
    /\ FnIdle
    /\ breaker = [state |-> "CLOSED", failure_count |-> 0, last_failure_time |-> -1]
    /\ now = 0
    /\ tasks = [t \in 1..NumTasks |-> [pc |-> "idle", trial |-> FALSE, last |-> NoneStr]]
    /\ redis_cache = [client |-> FALSE, disabled |-> FALSE, warned |-> FALSE,
                      warnings |-> 0]
    /\ ops = [t \in 1..NumTasks |-> [pc |-> "idle", op |-> NoneStr, failed |-> FALSE,
                                     last |-> NoneStr]]
    /\ limiter = << >>
    /\ allowed = [key \in Keys |-> << >>]
    /\ \E policy \in [max_retries : 0..MaxRetries, base_delay : 1..2,
                      max_delay : 1..MaxDelay] :
        retry = RetryEntered(policy)

SpecRetry == InitRetry /\ [][RetryAttempt]_vars /\ WF_vars(RetryAttempt)

\* the fusions of one retriever
InitFuse ==
    /\ Quiet
    /\ table = << >>
    /\ memory = << >>
    /\ \E kw \in RankedLists, dn \in RankedLists, top_k \in 1..NumDocs :
        call = [fn |-> "rrf_fuse", lists |-> << kw, dn >>, top_k |-> top_k]
    /\ ret = NoCall

SpecFuse == InitFuse /\ [][RetrieveFuse]_vars

\* ------------------------------------------------- reading messages back
MaxMessages == 3
NumConversations == 2

\* ConversationService.add_message called on its own
AppendMessage(c, sender) ==
    /\ Len(messages) < MaxMessages
    /\ messages' = Append(messages, MessageRow(c, sender, 0, {}, ""))
    /\ UNCHANGED << tenants, users, conversations, knowledge_bases, documents,
                    chunks, sharedVars, reqVars, histVars, ingVars, fnVars,
                    libVars >>

MessageIds(c) == {i \in 1..Len(messages) : messages[i].conversation_id = c}

\* the row orders ORDER BY timestamp DESC admits: rows of equal timestamp
\* come in whatever order the database produces them
RecentOrders(c) ==
    LET ids == MessageIds(c)
        n == Cardinality(ids)
    IN {o \in [1..n -> ids] :
           /\ \A i, j \in 1..n : i # j => o[i] # o[j]
           /\ \A i, j \in 1..n :
                  i < j => messages[o[i]].timestamp >= messages[o[j]].timestamp}

\* ConversationService.get_recent_messages: the first `limit` rows of the
\* conversation by descending timestamp, as the ids of the rows
GetRecentMessages(c, limit) ==
    /\ \E o \in RecentOrders(c) :
          ret' = [fn |-> "get_recent_messages", conversation |-> c,
                  limit |-> limit,
                  value |-> SubSeq(o, 1, Min(limit, Len(o)))]
    /\ UNCHANGED << dbVars, sharedVars, reqVars, histVars, ingVars, table,
                    memory, call, libVars >>

NextMessages ==
    \/ Tick
    \/ \E c \in 1..NumConversations, sender \in {"USER", "SYSTEM"} :
          AppendMessage(c, sender)
    \/ \E c \in 1..NumConversations, limit \in 1..MaxMessages :
          GetRecentMessages(c, limit)

InitMessages ==
    /\ Quiet
    /\ FnIdle

SpecMessages == InitMessages /\ [][NextMessages]_vars

\* ------------------------------------------------- embedding batches
\* the number of inputs of one embed call, and the per-request cap (280 000
\* in the source) scaled to the input lengths drawn
MaxInputs == 3
MAX_TOKENS_PER_REQUEST == 3

Max(a, b) == IF a > b THEN a ELSE b

\* lengths in characters: the empty text, texts below and at two tokens, and
\* a text that alone is estimated above the cap
InputLens == {0, 7, 8, 4 * (MAX_TOKENS_PER_REQUEST + 2)}

\* line 164-166: 4 chars per token, at least one
estimate_tokens(len) == Max(1, len \div 4)

\* lines 169-190: the loop over the inputs and the final flush; a batch is
\* the sequence of the positions of its inputs, `sent` the requests issued
RECURSIVE embed_requests(_, _, _, _, _)
embed_requests(inputs, i, batch, tokens_in_batch, sent) ==
    IF i > Len(inputs)
    THEN IF batch # << >> THEN Append(sent, batch) ELSE sent
    ELSE LET t_tokens == estimate_tokens(inputs[i])
             flush == batch # << >>
                      /\ tokens_in_batch + t_tokens > MAX_TOKENS_PER_REQUEST
         IN embed_requests(inputs, i + 1,
                           Append(IF flush THEN << >> ELSE batch, i),
                           (IF flush THEN 0 ELSE tokens_in_batch) + t_tokens,
                           IF flush THEN Append(sent, batch) ELSE sent)

RECURSIVE Flatten(_)
Flatten(sqs) == IF sqs = << >> THEN << >> ELSE Head(sqs) \o Flatten(Tail(sqs))

\* DocumentService.embed on a list of texts: with an API key one
\* embeddings.create per batch, here answered by the service with one vector
\* per input of the request (a vector is named by its input's position),
\* appended in order; without a key one hashed vector per input, no request
EmbedCall ==
    /\ call.fn = "embed"
    /\ ret.fn = NoneStr
    /\ LET requests == IF openai_client
                       THEN embed_requests(call.inputs, 1, << >>, 0, << >>)
                       ELSE << >>
       IN ret' = [fn |-> "embed", requests |-> requests,
                  value |-> IF openai_client THEN Flatten(requests)
                            ELSE [i \in 1..Len(call.inputs) |-> i]]
    /\ UNCHANGED << dbVars, sharedVars, reqVars, histVars, ingVars, libVars,
                    table, memory, call >>

InputLists == UNION {[1..n -> InputLens] : n \in 0..MaxInputs}

InitEmbed ==
    /\ tenants = {}
    /\ users = {}
    /\ conversations = << >>
    /\ messages = << >>
    /\ knowledge_bases = << >>
    /\ documents = << >>
    /\ chunks = << >>
    /\ openai_client \in BOOLEAN
    /\ load = [parallel |-> 0, traffic |-> {}]
    /\ RequestsIdle
    /\ IngestIdle
    /\ LibIdle
    /\ table = << >>
    /\ memory = << >>
    /\ \E inputs \in InputLists : call = [fn |-> "embed", inputs |-> inputs]
    /\ ret = NoCall

SpecEmbed == InitEmbed /\ [][EmbedCall]_vars

\* ------------------------------------------------- sentence-aware chunks
\* the sentences of one page, the char target (1400 in the source) scaled to
\* the sentence lengths drawn, and the default overlap
MaxSentences == 4
target_chars == 10
overlap_sentences == 2

\* _split_sentences keeps sentences of 3 characters or more; one of the
\* lengths drawn is above the target on its own
SentenceLens == {3, 5, target_chars + 2}

\* len(" ".join(buf)): buf holds positions in `sentences`
RECURSIVE JoinedLen(_, _)
JoinedLen(sentences, buf) ==
    IF buf = << >> THEN 0
    ELSE sentences[Head(buf)]
         + (IF Len(buf) > 1 THEN 1 ELSE 0)
         + JoinedLen(sentences, Tail(buf))

\* lines 103-135: the loop over the sentences of a page and the final emit;
\* i is the 1-based position of s, so sentences[max(0, i - K):i] of the
\* source is the positions Max(1, i - K) .. i - 1 here
RECURSIVE build_chunks(_, _, _, _)
build_chunks(sentences, i, buf, emitted) ==
    IF i > Len(sentences)
    THEN IF buf # << >> THEN Append(emitted, buf) ELSE emitted
    ELSE IF buf = << >>
         THEN build_chunks(sentences, i + 1, << i >>, emitted)
         ELSE IF JoinedLen(sentences, buf) + 1 + sentences[i] <= target_chars
              THEN build_chunks(sentences, i + 1, Append(buf, i), emitted)
              ELSE LET from == Max(1, i - overlap_sentences)
                       overlap == [k \in 1..(i - from) |-> from + k - 1]
                   IN build_chunks(sentences, i + 1, Append(overlap, i),
                                   Append(emitted, buf))

\* _build_chunks_with_metadata on one page of text without markers
BuildChunks ==
    /\ call.fn = "build_chunks"
    /\ ret.fn = NoneStr
    /\ ret' = [fn |-> "build_chunks",
               chunks |-> build_chunks(call.sentences, 1, << >>, << >>)]
    /\ UNCHANGED << dbVars, sharedVars, reqVars, histVars, ingVars, libVars,
                    table, memory, call >>

InitChunks ==
    /\ Quiet
    /\ table = << >>
    /\ memory = << >>
    /\ \E sentences \in UNION {[1..n -> SentenceLens] : n \in 0..MaxSentences} :
          call = [fn |-> "build_chunks", sentences |-> sentences]
    /\ ret = NoCall

SpecChunks == InitChunks /\ [][BuildChunks]_vars

\* ------------------------------------------------- list memory
\* the length of the lists a conversation remembers, and the topics asked
MaxItems == 2
ListTopics == {"T", "U"}

\* an ordered list, its items named by their positions
ItemLists == {[i \in 1..k |-> i] : k \in 0..MaxItems}

NoList == [last_list_topic |-> NoneStr, last_list_items |-> << >>,
           last_list_index |-> 0]

\* the list memory of a conversation context: none, or the topic, items and
\* index a turn stored, the items never empty (line 259 returns before the
\* memory is written); get_or_create_conversation starts the context from
\* payload.context, which a client fills with what an earlier turn stored
ListMemories ==
    {NoList} \cup
    {m \in [last_list_topic : ListTopics,
            last_list_items : ItemLists \ {<< >>},
            last_list_index : 0..MaxItems] :
        m.last_list_index <= Len(m.last_list_items)}

\* query.py lines 235-301 on a list request of the given mode, count and
\* topic (NoneStr: "next n" names none), with cands candidates retrieved:
\* line 249 indexes corpus with the candidate texts, which raises TypeError
\* when there is one; no candidate leaves nothing to extract items from
ListTurn(mode, n, asked, cands) ==
    /\ call.fn = "list_request"
    /\ LET topic == IF asked # NoneStr THEN asked ELSE memory.last_list_topic
           same == memory.last_list_topic = topic
           fresh == << >>
           items == IF same /\ Len(memory.last_list_items) > Len(fresh)
                    THEN memory.last_list_items ELSE fresh
           start_index == IF mode = "next" /\ same
                          THEN Max(0, memory.last_list_index) ELSE 0
           end_index == Min(Len(items), start_index + Max(1, n))
           slice_items == SubSeq(items, start_index + 1, end_index)
           reply(kind, slice) ==
               [fn |-> "list_request", kind |-> kind, mode |-> mode,
                topic |-> topic, start_index |-> start_index, slice |-> slice,
                before |-> memory]
       IN IF topic = NoneStr
          THEN ret' = reply("no_topic", << >>) /\ UNCHANGED memory
          ELSE IF cands > 0
          THEN ret' = reply("raise", << >>) /\ UNCHANGED memory
          ELSE IF items = << >>
          THEN ret' = reply("no_items", << >>) /\ UNCHANGED memory
          ELSE /\ ret' = reply("list_items", slice_items)
               /\ \E committed \in BOOLEAN :
                     memory' = IF committed
                               THEN [last_list_topic |-> topic,
                                     last_list_items |-> items,
                                     last_list_index |-> end_index]
                               ELSE memory
    /\ UNCHANGED << dbVars, sharedVars, reqVars, histVars, ingVars, libVars,
                    table, call >>

NextList ==
    \E mode \in {"first", "next"}, n \in 0..MaxItems,
       asked \in ListTopics \cup {NoneStr}, cands \in 0..1 :
        /\ mode = "first" => asked # NoneStr
        /\ ListTurn(mode, n, asked, cands)

InitList ==
    /\ Quiet
    /\ table = << >>
    /\ memory \in ListMemories
    /\ call = [fn |-> "list_request"]
    /\ ret = NoCall

SpecList == InitList /\ [][NextList]_vars

\* ------------------------------------------------- gateway rate limit
\* the rules "<count>/<unit>" an endpoint is decorated with
MaxLimit == 2
Rules == [count : 0..MaxLimit, unit : {"s", "m", "x"}]

\* SimpleRateLimiter._parse_rule: the window in seconds, 60 for an unknown unit
parse_rule(rule) ==
    [limit |-> rule.count,
     window |-> IF rule.unit = "s" THEN 1 ELSE 60]

\* lines 54-57: timestamps older than the cutoff are popped from the head
RECURSIVE evict(_, _)
evict(bucket, cutoff) ==
    IF bucket # << >> /\ Head(bucket) < cutoff THEN evict(Tail(bucket), cutoff)
    ELSE bucket

\* a bucket that counts as full only above the limit
bucket_over(bucket, limit) == Len(bucket) > limit

\* line 58
bucket_full(bucket, limit) == Len(bucket) >= limit

\* SimpleRateLimiter.is_allowed(key, rule) at time now, as rate_limited calls
\* it for a request of the endpoint
IsAllowed(key) ==
    /\ call.fn = "is_allowed"
    /\ LET rule == parse_rule(call.rule)
           bucket == evict(IF key \in DOMAIN limiter THEN limiter[key] ELSE << >>,
                           now - rule.window)
           full == bucket_full(bucket, rule.limit)
       IN /\ limiter' = (key :> (IF full THEN bucket ELSE Append(bucket, now)))
                           @@ limiter
          /\ allowed' = IF full THEN allowed
                        ELSE [allowed EXCEPT ![key] = Append(@, now)]
          /\ ret' = [fn |-> "is_allowed", key |-> key, value |-> ~full]
    /\ UNCHANGED << dbVars, sharedVars, reqVars, histVars, ingVars, table,
                    memory, call, breaker, now, tasks, retry, rcVars >>

NextLimiter ==
    \/ Tick
    \/ \E key \in Keys : IsAllowed(key)

InitLimiter ==
    /\ Quiet
    /\ table = << >>
    /\ memory = << >>
    /\ \E rule \in Rules : call = [fn |-> "is_allowed", rule |-> rule]
    /\ ret = NoCall

SpecLimiter == InitLimiter /\ [][NextLimiter]_vars

\* ------------------------------------------------------------- claims
Valid(w) == pc[w] # "idle" /\ Validate(payload[w]) = 200

\* C1: every candidate chunk that retriever.retrieve returned to a request of
\* tenant t is a chunk of t's own corpus, under any interleaving of requests
C1_TenantIsolationOfRetrieval ==
    \A w \in Workers : \A i \in 1..Len(candidates[w]) :
        candidates[w][i].owner = payload[w].tenant_id

\* C2: an answer computed and cached for a query of tenant t is never
\* returned from the cache to a query of another tenant
C2_CacheTenantScoping ==
    \A w \in Workers : hit[w] => hitBy[w] = payload[w].tenant_id

\* C3: at most one ACTIVE conversation exists per (tenant_id, user_id, channel)
C3_AtMostOneActiveConversation ==
    \A i, j \in 1..Len(conversations) :
        ( /\ i # j
          /\ conversations[i].status = "ACTIVE"
          /\ conversations[j].status = "ACTIVE"
          /\ conversations[i].tenant_id = conversations[j].tenant_id
          /\ conversations[i].user_id = conversations[j].user_id )
        => conversations[i].channel # conversations[j].channel

Dispatching ==
    {"index", "retrieve", "save_context", "cache_get", "cache_set",
     "cache_set_policy", "cache_set_sentinel", "expand", "add_system_message"}

MessagesOf(t, sender) ==
    {i \in 1..Len(messages) :
        messages[i].turn = t /\ messages[i].sender_type = sender}

\* C4: while a turn's strategy runs, its USER message is in the log and its
\* SYSTEM message is not; every SYSTEM message in the log comes after the
\* USER message of its turn, in the same conversation
C4_TurnOrdering ==
    /\ \A w \in Workers : pc[w] \in Dispatching =>
          /\ MessagesOf(turn[w], "USER") # {}
          /\ MessagesOf(turn[w], "SYSTEM") = {}
    /\ \A i \in 1..Len(messages) : messages[i].sender_type = "SYSTEM" =>
          \E j \in 1..(i - 1) :
              /\ messages[j].sender_type = "USER"
              /\ messages[j].turn = messages[i].turn
              /\ messages[j].conversation_id = messages[i].conversation_id

\* a turn has been answered while another one, begun later, is unanswered
C4_Witness ==
    \E i \in 1..Len(messages) :
        /\ messages[i].sender_type = "SYSTEM"
        /\ \E w \in Workers :
              /\ pc[w] \in Dispatching
              /\ MessagesOf(turn[w], "USER") # {}
              /\ \A u \in MessagesOf(turn[w], "USER") : u < i

\* C5: a valid query that is not refused and meets no storage failure ends
\* with status 200 and exactly one SYSTEM message, which carries its response
C5_TurnCompletion ==
    \A w \in Workers :
        ( /\ pc[w] = "done"
          /\ Valid(w)
          /\ payload[w].message \cap sensitive_terms = {}
          /\ ~storageFailure[w] )
        => /\ http[w] = 200
           /\ Cardinality(MessagesOf(turn[w], "SYSTEM")) = 1
           /\ \A i \in MessagesOf(turn[w], "SYSTEM") :
                 messages[i].content = response[w].response

ClaimedTerms == {"ethnicity", "race", "hispanic", "religion", "sexual orientation"}

\* C8: a valid query whose text contains one of the sensitive terms gets the
\* fixed refusal: confidence 0, requires_human, no citations
C8_RefusalIdempotence ==
    \A w \in Workers :
        (Valid(w) /\ payload[w].message \cap ClaimedTerms # {})
        => /\ pc[w] = "done"
           /\ http[w] = 200
           /\ response[w].response = "refusal"
           /\ response[w].confidence = 0
           /\ response[w].requiresHuman
           /\ response[w].citations = 0

\* a refusal given while the tenant has a corpus and the cache holds answers
C8_Witness ==
    \E w \in Workers :
        /\ Valid(w)
        /\ payload[w].message \cap ClaimedTerms # {}
        /\ response[w].response = "refusal"
        /\ TenantRows(payload[w].tenant_id) # << >>
        /\ cache # {}
        /\ ~openai_client

SystemLog(log) == SelectSeq(log, LAMBDA m : m.sender_type = "SYSTEM")

\* C9: the step that handles a sensitive query ends the request, appends no
\* SYSTEM message, and leaves the users, the conversations and their
\* contexts, the cache and the shared retriever index unchanged
C9_RefusalFrame ==
    [][ \A w \in Workers :
          ( /\ turn'[w] # turn[w]
            /\ Validate(payload'[w]) = 200
            /\ payload'[w].message \cap ClaimedTerms # {} )
          => /\ pc'[w] = "done"
             /\ SystemLog(messages') = SystemLog(messages)
             /\ UNCHANGED << users, conversations, cache, retriever >>
      ]_vars

\* a refused request has ended while the stores it must not touch hold data
C9_Witness ==
    \E w \in Workers :
        /\ pc[w] = "done"
        /\ Valid(w)
        /\ payload[w].message \cap ClaimedTerms # {}
        /\ messages # << >>
        /\ retriever # << >>
        /\ MessagesOf(turn[w], "USER") = {}

\* C10: an answer returned from a cache hit equals the answer that the latest
\* computation for the same tenant and query returned and stored
C10_CacheLaw ==
    \A w \in Workers : hit[w] => result[w] = hitExpected[w]

ChunksOf(d) == {i \in 1..Len(chunks) : chunks[i].document_id = d}

\* C6: every INDEXED document has exactly chunk_count stored chunks, and
\* their chunk_index values are 0..chunk_count-1 without duplicate or gap
C6_ChunkCompleteness ==
    \A d \in 1..Len(documents) : documents[d].status = "INDEXED" =>
        /\ Cardinality(ChunksOf(d)) = documents[d].chunk_count
        /\ {chunks[i].chunk_index : i \in ChunksOf(d)}
              = 0..(documents[d].chunk_count - 1)

\* C7: after an ingest call has failed, the store holds neither a Document
\* row nor a chunk of that call, and no document has status PROCESSING
C7_IngestAtomicity ==
    ipc = "failed" =>
        /\ ingest.doc \notin 1..Len(documents)
        /\ ChunksOf(ingest.doc) = {}
        /\ \A d \in 1..Len(documents) : documents[d].status # "PROCESSING"

\* C11: when a computed answer is written to the cache, the entry that the
\* same tenant's lookup of the same query reads holds that answer
C11_MissComputeAndSet ==
    [][ \A w \in Workers :
          ( /\ pc[w] \in {"cache_set", "cache_set_policy", "cache_set_sentinel"}
            /\ pc'[w] # pc[w]
            /\ cache' # cache )
          => \E e \in cache' :
                /\ e.tid = tenant_param[w]
                /\ e.key = CacheKey(tenant_param[w], payload[w].message)
                /\ e.value = result[w]
      ]_vars

Answered(w) ==
    /\ pc[w] = "done"
    /\ Valid(w)
    /\ ~IsSensitive(payload[w].message)
    /\ ~storageFailure[w]
    /\ TenantRows(payload[w].tenant_id) # << >>

\* C12: a list turn on a topic ("first n of T", or "next m" in a conversation
\* that remembers T) is answered with the slice of the ordered list, or with
\* the reply that no list was found, and the topic is then remembered
C12_ListContinuation ==
    \A w \in Workers :
        ( /\ Answered(w)
          /\ "next_chapter" \notin payload[w].message
          /\ \/ "list_first" \in payload[w].message
             \/ /\ "list_next" \in payload[w].message
                /\ payload[w].context.last_list_topic # NoneStr )
        => /\ http[w] = 200
           /\ response[w].response \in {"list_items", "no_items"}
           /\ response[w].response = "list_items" =>
                 conversations[conversation[w]].context.last_list_topic = "T"

\* C17: a "next chapter after chapter N" turn is answered either with chapter
\* N+1, which is then the conversation's last_chapter, or with confidence 0
\* and requires_human while the conversation context stays as it was
C17_ChapterNavigation ==
    \A w \in Workers :
        (Answered(w) /\ "next_chapter" \in payload[w].message)
        => /\ http[w] = 200
           /\ \/ /\ response[w].response = "next_chapter"
                 /\ conversations[conversation[w]].context.last_chapter = "N+1"
              \/ /\ response[w].response = "no_next"
                 /\ response[w].confidence = 0
                 /\ response[w].requiresHuman
                 /\ conversations[conversation[w]].context.last_chapter = NoneStr

Asked == IF call.candidate # << >> THEN call.candidate ELSE call.last_person

\* the rows that are about the person asked for: by the name cell when the
\* row has one, by any cell otherwise
RowsOf(person) ==
    {i \in 1..Len(table) :
        IF table[i].name # << >>
        THEN norm_name(table[i].name) \in name_variants(person)
        ELSE norm_name(table[i].manager) \in name_variants(person)}

\* C13: when the person asked for has no row, or only rows whose field is
\* empty, the answer has confidence 0 and requires_human, the generic
\* strategy is not used and last_person keeps its value
C13_TabularLookupFailure ==
    ( /\ call.fn = "field"
      /\ ret.kind # "generic"
      /\ \A i \in RowsOf(Asked) : table[i].salary = << >> )
    => /\ ret.confidence = 0
       /\ ret.requiresHuman
       /\ ~ret.generic
       /\ memory = call.last_person

\* C14: the value returned comes from a row of the person asked for; a row
\* with a name cell is that person's row only by its name cell
C14_RequestedPersonOnly ==
    (call.fn = "field" /\ ret.kind = "field") => ret.row \in RowsOf(Asked)

\* C15: once a lookup has stored last_person, a field question that refers
\* to the person by a pronoun only is answered from that person's row
C15_PronounMemory ==
    ( /\ call.fn = "field"
      /\ call.pronoun
      /\ call.last_person # << >>
      /\ call.candidate \in {<< >>, <<"this", "year">>, <<"the", "policy">>} )
    => /\ ret.kind = "field"
       /\ ret.row \in RowsOf(call.last_person)

\* C16: a lookup by "First Last" matches a row stored as "Last, First", and
\* a lookup by "Last, First" matches a row stored as "First Last"
C16_NameOrderInsensitive ==
    /\ ( /\ call.fn = "field"
         /\ call.candidate = <<"a", "b">>
         /\ \E i \in 1..Len(table) : table[i].name = <<"B", ",", "A">> )
       => ret.kind \in {"field", "field_empty"}
    /\ ( /\ call.fn = "field"
         /\ call.candidate = <<"B", ",", "A">>
         /\ \E i \in 1..Len(table) : table[i].name = <<"A", "B">> )
       => ret.kind \in {"field", "field_empty"}

\* C19: the document created by an ingest call of tenant t belongs to a
\* knowledge base of tenant t, whatever knowledge base id the caller gave
C19_DocumentOwnership ==
    ipc \in {"store", "done"} =>
        /\ knowledge_bases[ingest.kb] = ingest.tenant
        /\ documents[ingest.doc].tenant = ingest.tenant

\* C20: list_documents returns only documents of the tenant named in the
\* caller's token, and update_document modifies only a document of that tenant
C20_InternalTenantScope ==
    (call.fn \in {"list_knowledge", "update_knowledge"} /\ ret.status = 200)
    => \A d \in ret.docs : documents[d].tenant = call.token.tenant_id

\* rank of a document in an input list; a document the list does not hold
\* ranks behind every document it holds
RankIn(l, d) ==
    IF d \in Range(l) THEN CHOOSE r \in 1..Len(l) : l[r] = d ELSE Len(l) + 1

RankedAtLeastAsWell(a, b) ==
    \A i \in 1..Len(call.lists) : RankIn(call.lists[i], a) <= RankIn(call.lists[i], b)

\* C18: RRF monotonicity. When a is ranked at least as well as b in both
\* input lists of rrf_fuse, b is in the top_k output only if a is, and a then
\* stands at least as early as b
C18_RRFMonotonicity ==
    ret.fn = "rrf_fuse" =>
        \A a, b \in 0..(NumDocs - 1) :
            (RankedAtLeastAsWell(a, b) /\ b \in Range(ret.fused))
            => /\ a \in Range(ret.fused)
               /\ RankIn(ret.fused, a) <= RankIn(ret.fused, b)

\* a fusion that cut its result, of lists that disagree on their first
\* document, with two distinct documents in the claim's case
C18_Witness ==
    /\ ret.fn = "rrf_fuse"
    /\ Len(call.lists[1]) > 1 /\ Len(call.lists[2]) > 1
    /\ call.lists[1][1] # call.lists[2][1]
    /\ Len(ret.fused) = call.top_k
    /\ Cardinality(Range(call.lists[1]) \cup Range(call.lists[2])) > call.top_k
    /\ \E a, b \in 0..(NumDocs - 1) :
        a # b /\ RankedAtLeastAsWell(a, b) /\ b \in Range(ret.fused)

\* C21: an ingest for a tenant, with content that yields chunks, leaves that
\* tenant existing with at least one KnowledgeBase whose tenant_id is the
\* tenant, however many previously unknown tenants ingested before
C21_DefaultKnowledgeBase ==
    (ingests > 0 /\ IsUuid(ingest.tenant) /\ ingest.n > 0)
    => /\ ingest.tenant \in {r.id : r \in tenants}
       /\ ingest.tenant \in Range(knowledge_bases)

\* C22: under any interleaving of concurrent calls the breaker's state
\* changes only CLOSED->OPEN, OPEN->HALF_OPEN, HALF_OPEN->CLOSED or
\* HALF_OPEN->OPEN
C22_BreakerTransitions ==
    [][ breaker'.state # breaker.state =>
          << breaker.state, breaker'.state >> \in
              { << "CLOSED", "OPEN" >>, << "OPEN", "HALF_OPEN" >>,
                << "HALF_OPEN", "CLOSED" >>, << "HALF_OPEN", "OPEN" >> } ]_vars

\* the breaker has gone round: it is CLOSED again after a trial returned,
\* while another call admitted meanwhile is still running
C22_Witness ==
    /\ breaker.state = "CLOSED"
    /\ breaker.last_failure_time >= 0
    /\ \E t, u \in 1..NumTasks :
        /\ tasks[t].trial /\ tasks[t].last = "returned"
        /\ tasks[u].pc = "running"

\* C23: while the breaker is OPEN and less than recovery_timeout has passed
\* since the last recorded failure, call() fails without invoking the
\* function; the first call after that is admitted as the HALF_OPEN trial;
\* the trial's success closes the breaker with failure_count 0 and its
\* failure re-opens it
C23_OpenShortCircuit ==
    [][ \A t \in 1..NumTasks :
          /\ (tasks[t].pc = "idle" /\ tasks'[t] # tasks[t] /\ breaker.state = "OPEN")
             => IF now - breaker.last_failure_time < recovery_timeout
                THEN tasks'[t].pc = "idle" /\ tasks'[t].last = "rejected"
                ELSE /\ tasks'[t].pc = "running" /\ tasks'[t].trial
                     /\ breaker'.state = "HALF_OPEN"
          /\ (tasks[t].pc = "running" /\ tasks[t].trial /\ tasks'[t].pc = "idle")
             => IF tasks'[t].last = "returned"
                THEN breaker'.state = "CLOSED" /\ breaker'.failure_count = 0
                ELSE breaker'.state = "OPEN" ]_vars

\* what C24 says of every state of a call of execute_with_retry
RetryBounded ==
    retry.status # "idle" =>
        LET n == Len(retry.outcomes)
        IN /\ n <= retry.policy.max_retries + 1
           /\ \A i \in 1..(n - 1) : retry.outcomes[i] = "raised"
           /\ Len(retry.delays) = IF retry.status = "running" THEN n ELSE n - 1
           /\ \A i \in 1..Len(retry.delays) :
                retry.delays[i] =
                    IF retry.policy.base_delay * (2 ^ (i - 1)) < retry.policy.max_delay
                    THEN retry.policy.base_delay * (2 ^ (i - 1))
                    ELSE retry.policy.max_delay
           /\ retry.status = "returned"
              => retry.outcomes[n] = "returned" /\ retry.result = n
           /\ retry.status = "raised"
              => /\ retry.outcomes[n] = "raised" /\ retry.result = n
                 /\ n = retry.policy.max_retries + 1

\* C24: execute_with_retry invokes the function at most max_retries + 1
\* times, returns the first successful invocation's result without calling
\* again, re-raises the last exception when every invocation fails, waits
\* min(base_delay * 2^attempt, max_delay) between attempts, and terminates
C24_BoundedRetry ==
    /\ []RetryBounded
    /\ <>(retry.status \in {"returned", "raised"})

\* every invocation failed, and a delay was cut down to max_delay
C24_Witness ==
    /\ retry.status = "raised"
    /\ Len(retry.outcomes) = MaxRetries + 1
    /\ \E i \in 1..Len(retry.delays) :
        /\ retry.delays[i] = retry.policy.max_delay
        /\ retry.policy.base_delay * (2 ^ (i - 1)) > retry.policy.max_delay

C26_NoMixedDimensions ==
    /\ \A i, j \in 1..Len(chunks) :
        documents[chunks[i].document_id].tenant = documents[chunks[j].document_id].tenant
        => chunks[i].dim = chunks[j].dim
    /\ ingest.index.sent > 0 => ingest.index.dim = IndexDim

\* C27: a cache operation that meets an error or an unavailable client
\* returns the no-value result, on which RAGService.answer computes as on a
\* miss (only a value is a hit), and however many operations fail at most
\* one warning is logged
C27_CacheFailOpen ==
    /\ \A t \in 1..NumTasks :
        (ops[t].pc = "idle" /\ ops[t].failed) => ops[t].last = "no_value"
    /\ redis_cache.warnings <= 1

\* a request that C28 is about: an identifier is malformed, or tenantId,
\* message or channel is missing (not sent, or sent empty)
Rejectable(p) ==
    \/ p.tenant_id \in {Absent, ""} \/ p.message \in {QAbsent, QEmpty}
    \/ p.channel \in {Absent, ""}
    \/ ~IsUuid(p.tenant_id)
    \/ p.user_id # "" /\ ~IsUuid(p.user_id)

\* C28: a query with a malformed tenantId or userId, or with tenantId,
\* message or channel missing, is rejected with status 400 before any storage
\* side effect: no user, conversation or message is created, the retriever
\* is not re-indexed and the cache is untouched
C28_ValidationBeforeEffects ==
    [][ \A w \in Workers :
          (turn'[w] # turn[w] /\ Rejectable(payload'[w]))
          => /\ http'[w] = 400
             /\ pc'[w] = "done"
             /\ UNCHANGED << users, conversations, messages, retriever, cache >> ]_vars

\* C29: an internal knowledge operation with a role lacking the needed
\* permission (KB_VIEW for list, KB_EDIT for update) changes no document and
\* is answered with 403; an update of an unknown document id is answered
\* with 404 and changes nothing
C29_RbacFailures ==
    [][ /\ ( /\ call'.fn = "list_knowledge"
             /\ call'.token.valid /\ call'.token.tenant_id # ""
             /\ ~has_permission(call'.token.role, "KB_VIEW") )
           => (ret'.status = 403 /\ UNCHANGED documents)
        /\ ( /\ call'.fn = "update_knowledge"
             /\ call'.token.valid /\ call'.id # 0
             /\ ~has_permission(call'.token.role, "KB_EDIT") )
           => (ret'.status = 403 /\ UNCHANGED documents)
        /\ ( /\ call'.fn = "update_knowledge"
             /\ call'.token.valid /\ call'.id > Len(documents)
             /\ has_permission(call'.token.role, "KB_EDIT") )
           => (ret'.status = 404 /\ UNCHANGED documents) ]_vars

\* C30: whenever the answer returned to the user is the no-info sentinel, the
\* answer object has requires_human = true, on every path of
\* RAGService.answer
C30_UngroundedEscalates ==
    \A w \in Workers :
        (pc[w] = "done" /\ http[w] = 200 /\ response[w].response = "no_info")
        => response[w].requiresHuman

\* C31: get_recent_messages returns the messages of a conversation in the
\* order in which they were appended, also when two of them were appended
\* with equal timestamps
C31_AppendOrder ==
    ret.fn = "get_recent_messages" =>
        \A i, j \in 1..Len(ret.value) : i < j => ret.value[i] < ret.value[j]

BatchTokens(inputs, batch) ==
    LET RECURSIVE Sum(_)
        Sum(b) == IF b = << >> THEN 0
                  ELSE estimate_tokens(inputs[Head(b)]) + Sum(Tail(b))
    IN Sum(batch)

\* C32: the remote embed path sends each input in exactly one batch, in
\* input order, every batch's estimated token total is at most the cap, also
\* for an input that alone exceeds the cap, and one vector per input comes
\* back in input order
C32_EmbedBatches ==
    (ret.fn = "embed" /\ openai_client) =>
        LET positions == [i \in 1..Len(call.inputs) |-> i]
        IN /\ Flatten(ret.requests) = positions
           /\ \A k \in 1..Len(ret.requests) :
                  BatchTokens(call.inputs, ret.requests[k])
                      <= MAX_TOKENS_PER_REQUEST
           /\ ret.value = positions

\* C33: every emitted chunk of more than one sentence has length at most the
\* char target, including chunks that start with the overlap; only a chunk
\* of a single sentence may exceed the target
C33_ChunkSizeBound ==
    ret.fn = "build_chunks" =>
        \A k \in 1..Len(ret.chunks) :
            Len(ret.chunks[k]) > 1 =>
                JoinedLen(call.sentences, ret.chunks[k]) <= target_chars

\* C34: whenever post_query reaches RAGService.answer, on the generic path
\* or on the tabular non-person path, the tenant id that filters the vector
\* search, the chapter listing and the SQL chapter fallback is the querying
\* tenant's id, never "global" or another tenant's id
C34_TenantFilteredSideChannels ==
    \A w \in Workers :
        (pc[w] \notin {"idle", "done"} /\ tenant_param[w] # NoneStr)
        => tenant_param[w] = payload[w].tenant_id

\* C35: in every conversation context that holds list memory
\* 0 <= last_list_index <= len(last_list_items); a 'next' request made when
\* last_list_index equals the list length emits an empty slice and leaves
\* last_list_index and last_list_items unchanged; a 'next' request on a
\* different topic starts again at index 0
C35_ListMemory ==
    /\ memory.last_list_topic # NoneStr =>
          /\ 0 <= memory.last_list_index
          /\ memory.last_list_index <= Len(memory.last_list_items)
    /\ ( /\ ret.fn = "list_request"
         /\ ret.mode = "next"
         /\ ret.before.last_list_topic # NoneStr
         /\ ret.topic = ret.before.last_list_topic
         /\ ret.before.last_list_index = Len(ret.before.last_list_items) )
       => /\ ret.kind = "list_items"
          /\ ret.slice = << >>
          /\ memory.last_list_index = ret.before.last_list_index
          /\ memory.last_list_items = ret.before.last_list_items
    /\ ( /\ ret.fn = "list_request"
         /\ ret.mode = "next"
         /\ ret.kind = "list_items"
         /\ ret.topic # ret.before.last_list_topic )
       => ret.start_index = 0

\* the context keys the strategy of a message writes
StrategyKeys(q) ==
    IF "next_chapter" \in q THEN {"last_chapter"}
    ELSE IF "list_first" \in q \/ "list_next" \in q THEN {"last_list_topic"}
    ELSE IF "field" \in q THEN {"last_person"}
    ELSE {}

ContextKeys == {"last_person", "last_list_topic", "last_chapter"}

\* a chapter turn over a corpus that holds the next chapter, or a field turn
\* that found the person's value: turns whose strategy has an update to make
HasUpdate(w) ==
    \/ /\ "next_chapter" \in payload[w].message
       /\ \E c \in Range(TenantRows(payload[w].tenant_id)) : c.content.kind = "text"
    \/ /\ "next_chapter" \notin payload[w].message
       /\ response[w].response = "field"

UpdateKept ==
    \A w \in Workers :
        (Answered(w) /\ HasUpdate(w)) =>
            \A k \in StrategyKeys(payload[w].message) :
                conversations[conversation[w]].context[k] # NoneStr

OnlyOwnKeys ==
    \A c \in 1..Len(conversations) : \A k \in ContextKeys :
        conversations'[c].context[k] # conversations[c].context[k] =>
            \E w \in Workers :
                /\ pc[w] = "save_context"
                /\ pc'[w] # "save_context"
                /\ conversation[w] = c
                /\ k \in StrategyKeys(payload[w].message)

C37_ReturnedChunkCount ==
    ipc = "done" =>
        /\ ingest.returned = Cardinality(ChunksOf(ingest.doc))
        /\ ingest.returned = documents[ingest.doc].chunk_count

CounterInvariant ==
    /\ breaker.state = "CLOSED" =>
          0 <= breaker.failure_count /\ breaker.failure_count < failure_threshold
    /\ breaker.state \in {"OPEN", "HALF_OPEN"} =>
          breaker.failure_count >= failure_threshold

SuccessInClosed ==
    \A t \in 1..NumTasks :
        ( /\ tasks[t].pc = "running"
          /\ tasks'[t].pc = "idle"
          /\ tasks'[t].last = "returned"
          /\ breaker.state = "CLOSED" )
        => /\ breaker'.state = "CLOSED"
           /\ breaker'.failure_count = Max(0, breaker.failure_count - 1)

\* C38: under any interleaving of concurrent calls, state = CLOSED implies
\* 0 <= failure_count < failure_threshold and state in {OPEN, HALF_OPEN}
\* implies failure_count >= failure_threshold; a success in CLOSED lowers
\* failure_count by one and never below 0
C38_BreakerCounter == []CounterInvariant /\ [][SuccessInClosed]_vars

\* the breaker is HALF_OPEN while one call is running and another call has
\* returned or raised
C38_Witness ==
    /\ breaker.state = "HALF_OPEN"
    /\ \E t, u \in 1..NumTasks :
          /\ t # u
          /\ tasks[t].pc = "running"
          /\ tasks[u].pc = "idle"
          /\ tasks[u].last \in {"returned", "raised"}

\* the requests of a key that were allowed within the last window
AllowedInWindow(key) ==
    {i \in 1..Len(allowed[key]) :
        allowed[key][i] >= now - parse_rule(call.rule).window}

WindowBound ==
    call.fn = "is_allowed" =>
        \A key \in Keys :
            Cardinality(AllowedInWindow(key)) <= parse_rule(call.rule).limit

Timestamps(reqs, key) ==
    IF key \in DOMAIN reqs THEN Range(reqs[key]) ELSE {}

CallEffects ==
    (ret' # ret \/ limiter' # limiter \/ allowed' # allowed) =>
        /\ ~ret'.value =>
              /\ allowed' = allowed
              /\ Timestamps(limiter', ret'.key) \subseteq Timestamps(limiter, ret'.key)
        /\ \A key \in Keys \ {ret'.key} :
              /\ key \in DOMAIN limiter' <=> key \in DOMAIN limiter
              /\ key \in DOMAIN limiter => limiter'[key] = limiter[key]
              /\ allowed'[key] = allowed[key]

\* C39: for every key and rule, over any sequence of is_allowed calls with
\* non-decreasing times, the allowed requests whose time lies within the last
\* window never exceed the limit; a rejected request is not recorded, and a
\* call for one key leaves the buckets of all other keys unchanged
C39_SlidingWindow == []WindowBound /\ [][CallEffects]_vars

\* a request is rejected at a time when an earlier allowed request of its key
\* has left the window and the other key has a request recorded
C39_Witness ==
    /\ ret.fn = "is_allowed"
    /\ ~ret.value
    /\ Len(allowed[ret.key]) > Cardinality(AllowedInWindow(ret.key))
    /\ \E key \in Keys \ {ret.key} : allowed[key] # << >>

====
